---- MODULE Spec2Model ----
(***************************************************************************)
(* Message-to-case workflow engine of loa_worker: the case state machine,  *)
(* the field tracker, the action handlers and router, the repositories     *)
(* (as keyed document stores) and the pipeline orchestrator.               *)
(*                                                                         *)
(* Conventions                                                             *)
(*  - Python None is the string "None"; a missing timestamp is 0.          *)
(*  - datetime.utcnow() is the variable clock; every operation reads it    *)
(*    once and advances it, so two operations never read the same time.    *)
(*  - A document store is a function from document ids to documents;       *)
(*    document(id).set(d) is (id :> d) @@ store.                           *)
(***************************************************************************)
EXTENDS Integers, Sequences, FiniteSets, TLC

\* ------------------------------------------------------------------ bounds
\* Messages in one batch given to process_batch.
MaxMessages == 2
\* Direct calls of ActionRouter.route_action in one behaviour of Spec.
MaxActions == 1
\* Calls performed in one behaviour of SpecSM.
MaxCalls == 2

\* Actions in the list given to route_actions.
MaxRouted == 2

\* Keywords of one kind counted in the text of a message.
\* The task and follow-up actions routed in one behaviour of SpecTask.
MaxTaskActions == 2

MaxKeywords == 3

\* ----------------------------------------------------------- value universes
None == "None"

CaseStatus == {"OPEN", "IN_PROGRESS", "AWAITING_INFO", "COMPLETE", "CANCELLED"}

CaseType == {"loa", "general", "annual_review"}

\* Field names a case may require or receive (two of the canonical keys).
Fields == {"date_of_birth", "plan_number"}

Values == {"1980-01-01", "P-77"}

\* ------------------------------------------------------------ state machine
VALID_TRANSITIONS ==
  [s \in CaseStatus |->
     CASE s = "OPEN" -> {"IN_PROGRESS", "CANCELLED"}
       [] s = "IN_PROGRESS" -> {"AWAITING_INFO", "COMPLETE", "CANCELLED"}
       [] s = "AWAITING_INFO" -> {"IN_PROGRESS", "COMPLETE", "CANCELLED"}
       [] s = "COMPLETE" -> {}
       [] s = "CANCELLED" -> {}]

can_transition_open_complete(from_status, to_status) ==
  \/ from_status = to_status
  \/ to_status \in VALID_TRANSITIONS[from_status]
  \/ (from_status = "OPEN" /\ to_status = "COMPLETE")

can_transition(from_status, to_status) ==
  \/ from_status = to_status
  \/ to_status \in VALID_TRANSITIONS[from_status]

\* A transition that stamps the completion time whatever the new status is.
transition_stamps_every_status(case, new_status, validate, now) ==
  IF validate /\ ~can_transition(case.status, new_status)
  THEN [raised |-> "InvalidStateTransitionError", case |-> case]
  ELSE [raised |-> None,
        case |-> [case EXCEPT !.status = new_status, !.completed_at = now]]

\* transition(case, new_status, validate) at time now: the exception raised
\* ("None" when it returns) and the case object after the call.
transition(case, new_status, validate, now) ==
  IF validate /\ ~can_transition(case.status, new_status)
  THEN [raised |-> "InvalidStateTransitionError", case |-> case]
  ELSE [raised |-> None,
        case |-> [case EXCEPT !.status = new_status,
                              !.completed_at =
                                 IF new_status = "COMPLETE" THEN now ELSE @]]

get_next_states(current_status) == VALID_TRANSITIONS[current_status]

\* A terminal-state test that knows COMPLETE only.
is_terminal_state_complete_only(status) == status = "COMPLETE"

is_terminal_state(status) == Cardinality(VALID_TRANSITIONS[status]) = 0

\* --------------------------------------------------------------- Case model
received_keys(case) == DOMAIN case.received_fields

\* is_complete deciding by the fields for every case type.
is_complete_fields_only(case) ==
  case.required_fields \subseteq DOMAIN case.received_fields

is_complete(case) ==
  IF case.case_type # "loa"
  THEN case.status = "COMPLETE"
  ELSE case.required_fields \subseteq received_keys(case)

get_missing_fields(case) == case.required_fields \ received_keys(case)

\* should_auto_transition that suggests AWAITING_INFO again for a case that is
\* already awaiting information.
should_auto_transition_repeats(case) ==
  IF case.case_type = "loa" /\ case.status \in {"IN_PROGRESS", "AWAITING_INFO"}
  THEN IF case.required_fields \subseteq DOMAIN case.received_fields
       THEN "COMPLETE"
       ELSE "AWAITING_INFO"
  ELSE None

\* should_auto_transition that also completes an OPEN LoA case whose fields
\* are all received.
should_auto_transition_from_open(case) ==
  IF case.case_type = "loa" /\ case.status \in {"OPEN", "IN_PROGRESS", "AWAITING_INFO"}
  THEN IF is_complete(case)
       THEN "COMPLETE"
       ELSE IF get_missing_fields(case) # {} /\ case.status # "AWAITING_INFO"
            THEN "AWAITING_INFO"
            ELSE None
  ELSE None

should_auto_transition(case) ==
  IF case.case_type = "loa" /\ case.status \in {"IN_PROGRESS", "AWAITING_INFO"}
  THEN IF is_complete(case)
       THEN "COMPLETE"
       ELSE IF get_missing_fields(case) # {} /\ case.status # "AWAITING_INFO"
            THEN "AWAITING_INFO"
            ELSE None
  ELSE None

\* add_field_value that replaces the whole received-field mapping.
add_field_value_replaces(case, field_name, value, source_message_id) ==
  [case EXCEPT !.received_fields =
     (field_name :> [value |-> value, source_message_id |-> source_message_id])]

\* add_field_value that keeps the entry a field name already has.
add_field_value_first_wins(case, field_name, value, source_message_id) ==
  [case EXCEPT !.received_fields =
     @ @@ (field_name :> [value |-> value,
                          source_message_id |-> source_message_id])]

\* FieldTracker.add_field_value: one FieldValue per field name, overwritten.
add_field_value(case, field_name, value, source_message_id) ==
  [case EXCEPT !.received_fields =
     (field_name :> [value |-> value, source_message_id |-> source_message_id])
       @@ @]

\* ------------------------------------------------------------------ actions
ActionType ==
  {"CREATE_CASE", "UPDATE_CASE", "COMPLETE_CASE", "CANCEL_CASE", "CREATE_TASK",
   "COMPLETE_TASK", "DRAFT_FOLLOWUP_EMAIL", "INITIATE_LOA_CHASE", "IGNORE"}

\* dict.get(key, default) on a parameter mapping: a key that is present with
\* the value None yields None, not the default.
Get(params, key, default) == IF key \in DOMAIN params THEN params[key] ELSE default

\* The empty snapshot {} of an audit entry.
EmptyState == [empty |-> TRUE]

\* What one execution finds at its I/O boundaries: whether the repository
\* read, the repository write and the email generation raise, and which of
\* the audit writes it attempts (numbered in call order) raise.
NoFailure == [get |-> FALSE, write |-> FALSE, llm |-> FALSE, audit |-> {}]

\* -------------------------------------------------------------- repositories
\* CaseRepository.get_case: the case read, or the error raised.
get_case(cases, case_id, f) ==
  IF f.get THEN [err |-> "StorageError", case |-> None]
  ELSE IF case_id \notin DOMAIN cases
       THEN [err |-> "CaseNotFoundError", case |-> None]
       ELSE [err |-> None, case |-> cases[case_id]]

\* CaseRepository.create_case: document(case.id).set(case).
create_case(cases, case, f) ==
  IF f.write THEN [err |-> "StorageError", cases |-> cases]
  ELSE [err |-> None, cases |-> (case.id :> case) @@ cases]

\* An update_case that writes the document whether or not it exists.
update_case_upserts(cases, case, f) ==
  IF f.get \/ f.write
  THEN [err |-> "StorageError", cases |-> cases]
  ELSE [err |-> None, cases |-> (case.id :> case) @@ cases]

\* CaseRepository.update_case: get_case first (any error, not-found included,
\* leaves as StorageError), then document(case.id).set(case).
update_case(cases, case, f) ==
  IF get_case(cases, case.id, f).err # None \/ f.write
  THEN [err |-> "StorageError", cases |-> cases]
  ELSE [err |-> None, cases |-> (case.id :> case) @@ cases]

\* CaseRepository.add_field_to_case: get_case, the field stored on the case,
\* the case marked COMPLETE and stamped when is_complete() holds and it is not
\* COMPLETE yet, then update_case.
add_field_to_case(cases, case_id, field_name, field_value, f, now) ==
  LET got == get_case(cases, case_id, f)
  IN IF got.err # None
     THEN [err |-> got.err, cases |-> cases]
     ELSE LET case1 == [got.case EXCEPT !.received_fields =
                                          (field_name :> field_value) @@ @]
              case2 == IF is_complete(case1) /\ case1.status # "COMPLETE"
                       THEN [case1 EXCEPT !.status = "COMPLETE",
                                          !.completed_at = now]
                       ELSE case1
          IN update_case(cases, case2, f)

\* AuditLog built by ActionHandler.log_action.
AuditLog(action, success, before_state, after_state, error_message, now) ==
  [id |-> "audit_" \o ToString(now),
   case_id |-> IF action.case_id = None THEN "unknown" ELSE action.case_id,
   action_type |-> action.type,
   before_state |-> before_state,
   after_state |-> after_state,
   triggered_by |-> action.triggered_by,
   success |-> success,
   error_message |-> error_message]

audit_write_replaces_last(audit, entry) ==
  IF audit = << >> THEN << entry >> ELSE [audit EXCEPT ![Len(audit)] = entry]

\* AuditRepository.log_action: document(audit_log.id).set(log_dict). The store
\* is kept in write order; a write under an id already stored replaces that
\* document.
audit_write(audit, entry) ==
  IF \E i \in 1..Len(audit) : audit[i].id = entry.id
  THEN [i \in 1..Len(audit) |-> IF audit[i].id = entry.id THEN entry ELSE audit[i]]
  ELSE Append(audit, entry)

\* ------------------------------------------------------------ handler bodies
\* The try-block of a handler up to (not including) its log_action call:
\* err is the exception raised in it ("None" when it reaches log_action),
\* cases/tasks are the stores when it stops, action is the action object as
\* mutated so far, before/after are the snapshots it would log.
Body(err, cases, tasks, action, before, after) ==
  [err |-> err, cases |-> cases, tasks |-> tasks, action |-> action,
   before |-> before, after |-> after]

Failed(err, w, action) == Body(err, w.cases, w.tasks, action, EmptyState, EmptyState)

\* str.replace(' ', '_') on the names the model uses.
Underscored(name) ==
  CASE name = "Alice Archer" -> "Alice_Archer"
    [] name = "Bob Baker" -> "Bob_Baker"
    [] OTHER -> name

CaseId(now, client_name) ==
  "case_" \o ToString(now) \o "_" \o Underscored(client_name)

TaskId(now) == "task_" \o ToString(now)

Case(id, client_name, case_title, case_type, status, required_fields) ==
  [id |-> id, client_name |-> client_name, case_title |-> case_title,
   case_type |-> case_type, status |-> status,
   required_fields |-> required_fields, received_fields |-> << >>,
   completed_at |-> 0]

\* CaseActionHandler._create_case
create_case_body(w, action, f, now) ==
  LET params == action.parameters
      client == Get(params, "client_name", "Unknown")
      case_type_str == Get(params, "case_type", "general")
      title == Get(params, "case_title", "Case: " \o client)
  IN IF Get(params, "client_name", "unknown") = None
     THEN Failed("AttributeError", w, action)
     ELSE IF case_type_str # None /\ case_type_str \notin CaseType
     THEN Failed("ValueError", w, action)
     ELSE IF title = None
     THEN Failed("ValidationError", w, action)
     ELSE
       LET case == Case(CaseId(now, Get(params, "client_name", "unknown")),
                        client, title,
                        IF case_type_str = None THEN "general" ELSE case_type_str,
                        "OPEN", Get(params, "required_fields", {}))
           created == create_case(w.cases, case, f)
       IN IF created.err # None
          THEN Failed(created.err, w, action)
          ELSE Body(None, created.cases, w.tasks,
                    [action EXCEPT !.case_id = case.id, !.success = "True"],
                    EmptyState, case)

\* The loop over field_updates.items() of _update_case.
RECURSIVE add_all_fields(_, _, _)
add_all_fields(case, field_updates, source_message_id) ==
  IF DOMAIN field_updates = {}
  THEN case
  ELSE LET k == CHOOSE x \in DOMAIN field_updates : TRUE
           rest == [x \in DOMAIN field_updates \ {k} |-> field_updates[x]]
       IN add_all_fields(add_field_value(case, k, field_updates[k], source_message_id),
                         rest, source_message_id)

\* Persist a case changed in memory and hand it to log_action.
persist_case(w, action, before, case, f) ==
  LET updated == update_case(w.cases, case, f)
  IN IF updated.err # None
     THEN Failed(updated.err, w, action)
     ELSE Body(None, updated.cases, w.tasks, [action EXCEPT !.success = "True"],
               before, case)

\* CaseActionHandler._update_case
update_case_body(w, action, f, now) ==
  IF action.case_id = None
  THEN Failed("ActionExecutionError", w, action)
  ELSE LET got == get_case(w.cases, action.case_id, f)
       IN IF got.err # None
          THEN Failed(got.err, w, action)
          ELSE LET field_updates == Get(action.parameters, "field_updates", << >>)
                   case1 == add_all_fields(got.case, field_updates, action.triggered_by)
                   new_status == should_auto_transition(case1)
                   t == IF new_status # None
                        THEN transition(case1, new_status, TRUE, now)
                        ELSE [raised |-> None, case |-> case1]
               IN IF t.raised # None
                  THEN Failed(t.raised, w, action)
                  ELSE persist_case(w, action, got.case, t.case, f)

\* CaseActionHandler._complete_case
complete_case_body(w, action, f, now) ==
  IF action.case_id = None
  THEN Failed("ActionExecutionError", w, action)
  ELSE LET got == get_case(w.cases, action.case_id, f)
       IN IF got.err # None
          THEN Failed(got.err, w, action)
          ELSE LET t1 == IF got.case.status = "OPEN"
                         THEN transition(got.case, "IN_PROGRESS", TRUE, now)
                         ELSE [raised |-> None, case |-> got.case]
                   t2 == IF t1.raised = None /\ t1.case.status = "AWAITING_INFO"
                         THEN transition(t1.case, "IN_PROGRESS", TRUE, now)
                         ELSE t1
                   t3 == IF t2.raised = None
                         THEN transition(t2.case, "COMPLETE", TRUE, now)
                         ELSE t2
               IN IF t3.raised # None
                  THEN Failed(t3.raised, w, action)
                  ELSE persist_case(w, action, got.case, t3.case, f)

cancel_case_body_unvalidated(w, action, f, now) ==
  IF action.case_id = None
  THEN Failed("ActionExecutionError", w, action)
  ELSE LET got == get_case(w.cases, action.case_id, f)
       IN IF got.err # None
          THEN Failed(got.err, w, action)
          ELSE persist_case(w, action, got.case,
                            transition(got.case, "CANCELLED", FALSE, now).case, f)

\* CaseActionHandler._cancel_case
cancel_case_body(w, action, f, now) ==
  IF action.case_id = None
  THEN Failed("ActionExecutionError", w, action)
  ELSE LET got == get_case(w.cases, action.case_id, f)
       IN IF got.err # None
          THEN Failed(got.err, w, action)
          ELSE LET t == transition(got.case, "CANCELLED", TRUE, now)
               IN IF t.raised # None
                  THEN Failed(t.raised, w, action)
                  ELSE persist_case(w, action, got.case, t.case, f)

\* ---------------------------------------------------------------- task store
Task(id, case_id, title, now) ==
  [id |-> id, case_id |-> case_id, title |-> title, status |-> "OPEN",
   created_at |-> now, completed_at |-> 0]

\* CaseRepository.create_task / update_task: document(task.id).set(task), in
\* the subcollection of task.case_id or in the standalone collection.
put_task(tasks, task, f) ==
  IF f.write THEN [err |-> "StorageError", tasks |-> tasks]
  ELSE [err |-> None, tasks |-> (task.id :> task) @@ tasks]

\* CaseRepository.find_task_by_title: the non-complete tasks of that title in
\* the collection the case id selects; limit(1) returns the first by id.
find_task_by_title(tasks, task_title, case_id, f) ==
  LET found == {id \in DOMAIN tasks :
                  /\ tasks[id].title = task_title
                  /\ tasks[id].case_id = case_id
                  /\ tasks[id].status # "COMPLETE"}
  IN IF f.get THEN [err |-> "StorageError", found |-> FALSE, task |-> None]
     ELSE IF found = {} THEN [err |-> None, found |-> FALSE, task |-> None]
     ELSE [err |-> None, found |-> TRUE,
           task |-> tasks[CHOOSE id \in found :
                            \A other \in found :
                              tasks[id].created_at <= tasks[other].created_at]]

\* TaskActionHandler._create_task
create_task_body(w, action, f, now) ==
  LET params == action.parameters
      title == Get(params, "task_title", "Unnamed Task")
  IN IF title = None \/ Get(params, "task_description", "") = None
     THEN Failed("ValidationError", w, action)
     ELSE LET task == Task(TaskId(now), action.case_id, title, now)
              put == put_task(w.tasks, task, f)
          IN IF put.err # None
             THEN Failed(put.err, w, action)
             ELSE Body(None, w.cases, put.tasks,
                       [action EXCEPT !.success = "True",
                                      !.parameters = ("task_id" :> task.id) @@ @],
                       EmptyState, task)

\* TaskActionHandler._complete_task
complete_task_body(w, action, f, now) ==
  LET task_title == Get(action.parameters, "task_title", None)
  IN IF task_title = None
     THEN Failed("ActionExecutionError", w, action)
     ELSE LET got == find_task_by_title(w.tasks, task_title, action.case_id, f)
          IN IF got.err # None
             THEN Failed(got.err, w, action)
             ELSE IF ~got.found
             THEN Failed("ActionExecutionError", w, action)
             ELSE LET task == [got.task EXCEPT !.status = "COMPLETE",
                                               !.completed_at = now]
                      put == put_task(w.tasks, task, f)
                  IN IF put.err # None
                     THEN Failed(put.err, w, action)
                     ELSE Body(None, w.cases, put.tasks,
                               [action EXCEPT !.success = "True"], got.task, task)

\* ----------------------------------------------------------- follow-up bodies
\* FollowupActionHandler._draft_followup_email
draft_followup_email_body(w, action, f, now) ==
  IF action.case_id = None
  THEN Failed("ActionExecutionError", w, action)
  ELSE LET got == get_case(w.cases, action.case_id, f)
       IN IF got.err # None
          THEN Failed(got.err, w, action)
          ELSE LET missing_fields == Get(action.parameters, "missing_fields",
                                         get_missing_fields(got.case))
               IN IF missing_fields = {}
                  THEN Body(None, w.cases, w.tasks,
                            [action EXCEPT !.success = "True",
                               !.parameters =
                                  ("email_content" :> "No missing fields to follow up on.") @@ @],
                            EmptyState, [status |-> "no_action_needed"])
                  ELSE IF f.llm
                  THEN Failed("LLMServiceError", w, action)
                  ELSE Body(None, w.cases, w.tasks,
                            [action EXCEPT !.success = "True",
                               !.parameters =
                                  ("email_content" :> "Dear Provider") @@
                                  ("missing_fields" :> missing_fields) @@ @],
                            EmptyState,
                            [email_drafted |-> TRUE, missing_fields |-> missing_fields])

\* A chase that stores a task for the follow-up it starts.
initiate_loa_chase_body_persists(w, action, f, now) ==
  IF action.case_id = None
  THEN Failed("ActionExecutionError", w, action)
  ELSE LET got == get_case(w.cases, action.case_id, f)
       IN IF got.err # None
          THEN Failed(got.err, w, action)
          ELSE Body(None, w.cases,
                    put_task(w.tasks, Task(TaskId(now), got.case.id, "LoA chase", now),
                             NoFailure).tasks,
                    [action EXCEPT !.success = "True"], EmptyState, EmptyState)

\* FollowupActionHandler._initiate_loa_chase
initiate_loa_chase_body(w, action, f, now) ==
  IF action.case_id = None
  THEN Failed("ActionExecutionError", w, action)
  ELSE LET got == get_case(w.cases, action.case_id, f)
       IN IF got.err # None
          THEN Failed(got.err, w, action)
          ELSE LET chase_info ==
                     [case_id |-> got.case.id, case_title |-> got.case.case_title,
                      client_name |-> got.case.client_name,
                      missing_fields |-> get_missing_fields(got.case),
                      chase_initiated_at |-> now]
               IN Body(None, w.cases, w.tasks,
                       [action EXCEPT !.success = "True",
                                      !.parameters = ("chase_info" :> chase_info) @@ @],
                       EmptyState, chase_info)

\* ------------------------------------------------------------------- execute
\* The handler method an action type selects (CaseActionHandler.execute,
\* TaskActionHandler.execute, FollowupActionHandler.execute).
handler_body(w, action, f, now) ==
  CASE action.type = "CREATE_CASE" -> create_case_body(w, action, f, now)
    [] action.type = "UPDATE_CASE" -> update_case_body(w, action, f, now)
    [] action.type = "COMPLETE_CASE" -> complete_case_body(w, action, f, now)
    [] action.type = "CANCEL_CASE" -> cancel_case_body(w, action, f, now)
    [] action.type = "CREATE_TASK" -> create_task_body(w, action, f, now)
    [] action.type = "COMPLETE_TASK" -> complete_task_body(w, action, f, now)
    [] action.type = "DRAFT_FOLLOWUP_EMAIL" -> draft_followup_email_body(w, action, f, now)
    [] action.type = "INITIATE_LOA_CHASE" -> initiate_loa_chase_body(w, action, f, now)

\* The outcome of a call: raised is the exception that leaves it ("None" when
\* it returns True), the stores are as it leaves them.
Outcome(raised, cases, tasks, audit, action) ==
  [raised |-> raised, cases |-> cases, tasks |-> tasks, audit |-> audit,
   action |-> action]

\* log_action(action, success=True, before, after) after a try-block that
\* ended as b.
logged_success(b, w, now) ==
  Outcome(None, b.cases, b.tasks,
          audit_write(w.audit, AuditLog(b.action, TRUE, b.before, b.after, None, now)),
          b.action)

\* The except-block: log_action(action, success=False, {}, {}, str(e)) and
\* the ActionExecutionError; the StorageError of a failed audit write leaves
\* in its place.
logged_failure(b, w, err, audit_fails, now) ==
  IF audit_fails
  THEN Outcome("StorageError", b.cases, b.tasks, w.audit, b.action)
  ELSE Outcome("ActionExecutionError", b.cases, b.tasks,
               audit_write(w.audit,
                           AuditLog(b.action, FALSE, EmptyState, EmptyState, err, now)),
               b.action)

\* What follows the handler body b: its log_action(success=True) is audit
\* write 1; the except-block's log_action is audit write 2 when write 1 was
\* attempted and raised, and audit write 1 otherwise.
finish(b, w, f, now) ==
  IF b.err = None
  THEN IF 1 \notin f.audit
       THEN logged_success(b, w, now)
       ELSE logged_failure(b, w, "StorageError", 2 \in f.audit, now)
  ELSE logged_failure(b, w, b.err, 1 \in f.audit, now)

\* execute(action) of the three handlers: the try-block, then log_action, and
\* the except-block.
execute(w, action, f, now) == finish(handler_body(w, action, f, now), w, f, now)

\* A router that looks up a handler for IGNORE as for any other type.
route_action_ignore_dispatched(w, action, f, now) ==
  IF action.type \notin ActionType \ {"IGNORE"}
  THEN Outcome("ActionExecutionError", w.cases, w.tasks, w.audit, action)
  ELSE execute(w, action, f, now)

\* ActionRouter.route_action
route_action(w, action, f, now) ==
  IF action.type = "IGNORE"
  THEN Outcome(None, w.cases, w.tasks, w.audit, action)
  ELSE IF action.type \notin ActionType
  THEN Outcome("ActionExecutionError", w.cases, w.tasks, w.audit, action)
  ELSE execute(w, action, f, now)

\* ------------------------------------------------------------ classification
MessageCategory ==
  {"CLIENT_TASK", "LOA_CHASE", "LOA_MISSING_INFO", "LOA_RESPONSE", "ADMIN",
   "IRRELEVANT"}

\* Confidence scores are kept in tenths (10 is 1.0).
Classification(category, confidence, is_relevant) ==
  [category |-> category, confidence |-> confidence, is_relevant |-> is_relevant]

NoClassification == [category |-> None, confidence |-> 0, is_relevant |-> FALSE]

\* Classification.should_process
should_process(classification) ==
  classification.is_relevant /\ classification.category # "IRRELEVANT"

\* A service call: the exception raised ("None" when it returns) and the value.
Returned(value) == [raised |-> None, value |-> value]

Raised(err) == [raised |-> err, value |-> None]

\* MockLLMService.classify_message
mock_classify_message(message) ==
  LET expected_category == message.metadata.expected_category
  IN IF expected_category = None
     THEN Returned(Classification("IRRELEVANT", 5, FALSE))
     ELSE IF expected_category \notin MessageCategory
     THEN Raised("ValueError")
     ELSE Returned(Classification(expected_category, 10,
                                  expected_category # "IRRELEVANT"))

\* LLMService.classify_message: an empty text is irrelevant; for any other
\* text the system prompt is formatted with MessageCategory.get_all_values(),
\* which the enum does not define, before the LLM call and outside its try.
classify_message(message) ==
  IF message.text_empty
  THEN Returned(Classification("IRRELEVANT", 10, FALSE))
  ELSE Raised("AttributeError")

\* ---------------------------------------------------------------- extraction
ExtractedEntities(client_name, case_title, field_updates, missing_fields) ==
  [client_name |-> client_name, case_title |-> case_title,
   field_updates |-> field_updates, missing_fields |-> missing_fields]

\* A metadata value that is not a string (a JSON number).
NotAString == "<number>"

\* The value MockLLMService writes for a field it finds mentioned in the text.
ExtractedValue(message_id) == "[extracted from message " \o message_id \o "]"

\* MockLLMService.extract_entities
mock_extract_entities(message) ==
  LET metadata == message.metadata
      found == metadata.expected_updated_contains \cap message.text_fields
  IN IF NotAString \in {metadata.expected_client_name, metadata.expected_case_title}
     THEN Raised("ValidationError")
     ELSE Returned(ExtractedEntities(
            metadata.expected_client_name, metadata.expected_case_title,
            [k \in found |-> ExtractedValue(message.id)],
            metadata.expected_missing_contains))

\* LLMService.extract_entities: nothing is extracted from an empty text or
\* when the LLM call fails; otherwise the entities parsed from the response.
extract_entities(message, response) ==
  IF message.text_empty \/ message.llm_fails
  THEN Returned(ExtractedEntities(None, None, << >>, {}))
  ELSE Returned(response)

\* ------------------------------------------------------------ action decision
\* existing_case when the lookup found no case (its id is None).
NoCase == [id |-> None]

Action(type, case_id, parameters, triggered_by) ==
  [type |-> type, case_id |-> case_id, parameters |-> parameters,
   triggered_by |-> triggered_by, success |-> None]

BaseParameters(entities) ==
  [client_name |-> entities.client_name, case_title |-> entities.case_title,
   field_updates |-> entities.field_updates,
   missing_fields |-> entities.missing_fields]

\* MockLLMService._infer_action_from_classification
infer_action_from_classification(classification) ==
  CASE classification.category = "CLIENT_TASK" -> "CREATE_CASE"
    [] classification.category = "LOA_RESPONSE" -> "UPDATE_CASE"
    [] classification.category = "LOA_MISSING_INFO" -> "DRAFT_FOLLOWUP_EMAIL"
    [] classification.category = "LOA_CHASE" -> "INITIATE_LOA_CHASE"
    [] OTHER -> "IGNORE"

\* MockLLMService.determine_action
mock_determine_action(message, classification, entities, existing_case) ==
  LET metadata == message.metadata
      expected_action == IF metadata.expected_action = "UPDATE_LOA_CASE"
                         THEN "UPDATE_CASE"
                         ELSE metadata.expected_action
      action_type == IF expected_action # None
                     THEN expected_action
                     ELSE infer_action_from_classification(classification)
      create == IF action_type = "CREATE_CASE"
                THEN [case_type |-> metadata.expected_case_type,
                      required_fields |-> metadata.expected_required_fields]
                ELSE << >>
      task == IF action_type \in {"CREATE_TASK", "COMPLETE_TASK"}
              THEN [task_title |-> metadata.expected_task_title,
                    task_description |-> metadata.expected_task_description]
              ELSE << >>
  IN IF action_type \notin ActionType
     THEN Raised("ValueError")
     ELSE Returned(Action(action_type,
                          existing_case.id,
                          create @@ task @@ BaseParameters(entities),
                          message.id))

\* The required fields LLMService.determine_action gives a new LoA case (the
\* canonical keys that are in Fields).
DefaultRequiredFields == Fields

\* LLMService.determine_action
determine_action(message, classification, entities, existing_case) ==
  LET category == classification.category
      field_updates == entities.field_updates
      is_loa_related == category \in {"LOA_CHASE", "LOA_MISSING_INFO", "LOA_RESPONSE"}
      case_type == IF is_loa_related THEN "loa" ELSE "general"
      missing_fields ==
        IF existing_case.id # None /\ category = "LOA_MISSING_INFO"
           /\ entities.missing_fields = {}
        THEN get_missing_fields(existing_case)
        ELSE entities.missing_fields
      action_type ==
        IF existing_case.id # None
        THEN CASE category = "LOA_RESPONSE" /\ DOMAIN field_updates # {} -> "UPDATE_CASE"
               [] category = "LOA_MISSING_INFO" -> "DRAFT_FOLLOWUP_EMAIL"
               [] category = "CLIENT_TASK" -> "CREATE_TASK"
               [] category = "LOA_CHASE" -> "INITIATE_LOA_CHASE"
               [] OTHER -> IF DOMAIN field_updates # {} THEN "UPDATE_CASE" ELSE "IGNORE"
        ELSE IF category \in {"CLIENT_TASK", "LOA_RESPONSE", "LOA_MISSING_INFO", "LOA_CHASE"}
             THEN "CREATE_CASE"
             ELSE "IGNORE"
      create == IF action_type = "CREATE_CASE"
                THEN IF case_type = "loa"
                     THEN [case_type |-> case_type, required_fields |-> DefaultRequiredFields]
                     ELSE [case_type |-> case_type]
                ELSE << >>
      task == IF action_type \in {"CREATE_TASK", "COMPLETE_TASK"}
              THEN [task_title |-> IF entities.case_title = None THEN "Client task"
                                   ELSE entities.case_title,
                    task_description |-> "text"]
              ELSE << >>
  IN IF category \in {"IRRELEVANT", "ADMIN"}
     THEN Returned(Action("IGNORE",
                          existing_case.id,
                          << >>, message.id))
     ELSE Returned(Action(action_type,
                          existing_case.id,
                          create @@ task @@
                            [BaseParameters(entities) EXCEPT !.missing_fields = missing_fields],
                          message.id))

\* ----------------------------------------------------------------- pre-filter
\* The spam keyword count from which a message is rejected.
SpamThreshold == 2

\* A pre-filter that counts the spam keywords before it looks at the sender.
pre_filter_spam_first(pre) ==
  IF pre.spam_score >= SpamThreshold THEN FALSE
  ELSE IF pre.has_sender /\ pre.blacklisted THEN FALSE
  ELSE TRUE

\* PreFilter.should_process over what it reads of a message: whether the
\* content has a from_address, whether that address contains a whitelist or a
\* spam domain, and how many spam and relevant keywords the text contains.
pre_filter_should_process(pre) ==
  IF pre.has_sender /\ pre.whitelisted THEN TRUE
  ELSE IF pre.has_sender /\ pre.blacklisted THEN FALSE
  ELSE IF pre.spam_score >= SpamThreshold THEN FALSE
  ELSE IF pre.relevant_score >= 1 THEN TRUE
  ELSE TRUE

\* ------------------------------------------------------------------ pipeline
OpenStatuses == {"OPEN", "IN_PROGRESS", "AWAITING_INFO"}

find_case_matches_any_status(cases, client_name, case_title) ==
  {id \in DOMAIN cases :
     /\ cases[id].client_name = client_name
     /\ (case_title # None => cases[id].case_title = case_title)}

\* CaseRepository.find_case_by_client_and_title: the documents the query
\* selects; limit(1) returns one of them, in no specified order.
find_case_by_client_and_title(cases, client_name, case_title) ==
  {id \in DOMAIN cases :
     /\ cases[id].client_name = client_name
     /\ (case_title # None => cases[id].case_title = case_title)
     /\ cases[id].status \in OpenStatuses}

ProcessingResult(message_id, success, classification, has_entities, actions_taken, error) ==
  [message_id |-> message_id, success |-> success,
   classification |-> classification, has_entities |-> has_entities,
   actions_taken |-> actions_taken, error_message |-> error]

NoAction == Action(None, None, << >>, None)

\* What process_message leaves: the result, the stores, the message's
\* processing status, and (for inspection) the case matched, the action as
\* determine_action returned it and the action as given to the router, "None"
\* when that stage was not reached, and the stage in which an exception was
\* raised, "None" when none was.
Processed(result, o, status, matched, action, stage) ==
  [result |-> result, cases |-> o.cases, tasks |-> o.tasks, audit |-> o.audit,
   processing_status |-> status, matched |-> matched, action |-> action,
   decided |-> NoAction, raised |-> o.raised, stage |-> stage]

Untouched(w) == Outcome(None, w.cases, w.tasks, w.audit, NoAction)

message_failed_as_success(w, message, err, stage, matched) ==
  Processed(ProcessingResult(message.id, TRUE, NoClassification, FALSE, << >>, None),
            Untouched(w), "PROCESSED", matched, NoAction, stage)

\* The except-block of process_message.
MessageFailed(w, message, err, stage, matched) ==
  Processed(ProcessingResult(message.id, FALSE, NoClassification, FALSE, << >>, err),
            Untouched(w), "FAILED", matched, NoAction, stage)

\* The classification, extraction and decision stages of the configured
\* service (get_llm_service: MockLLMService when the environment asks for it).
service_classify(service, message) ==
  IF service = "mock" THEN mock_classify_message(message) ELSE classify_message(message)

service_extract(svc, message) ==
  IF svc = "mock" THEN mock_extract_entities(message)
  ELSE extract_entities(message, message.llm_entities)

service_determine(svc, message, classification, entities, existing_case) ==
  IF svc = "mock"
  THEN mock_determine_action(message, classification, entities, existing_case)
  ELSE determine_action(message, classification, entities, existing_case)

NoLookup == [looked |-> FALSE, client_name |-> None, case_title |-> None]

\* A case lookup made whether or not a client name was extracted.
lookup_with_any_name(e) ==
  IF e.raised = None
  THEN [looked |-> TRUE, client_name |-> e.value.client_name,
        case_title |-> e.value.case_title]
  ELSE NoLookup

lookup_with(e) ==
  IF e.raised = None /\ e.value.client_name # None
  THEN [looked |-> TRUE, client_name |-> e.value.client_name,
        case_title |-> e.value.case_title]
  ELSE NoLookup

lookup_after(service, message, c) ==
  IF c.raised = None /\ should_process(c.value)
  THEN lookup_with(service_extract(service, message))
  ELSE NoLookup

\* Whether process_message reaches the case lookup, and with which arguments.
lookup_of(service, message) ==
  IF pre_filter_should_process(message.pre)
  THEN lookup_after(service, message, service_classify(service, message))
  ELSE NoLookup

\* A process_message without the back-fill of the case id.
backfill_skipped(action, existing_id) == action

\* "if existing_case and not action.case_id: action.case_id = existing_case.id"
backfill(action, existing_id) ==
  IF existing_id # None /\ action.case_id = None
  THEN [action EXCEPT !.case_id = existing_id]
  ELSE action

\* process_message that lists an IGNORE action among the actions taken.
executed_ignore_listed(w, message, c, existing_id, action, o) ==
  IF action.type = "IGNORE"
  THEN Processed(ProcessingResult(message.id, TRUE, c, TRUE,
                                  << [action EXCEPT !.success = "True"] >>, None),
                 Untouched(w), "PROCESSED", existing_id, action, None)
  ELSE IF o.raised # None
  THEN Processed(ProcessingResult(message.id, FALSE, NoClassification, FALSE, << >>,
                                  o.raised),
                 o, "FAILED", existing_id, action, "execute")
  ELSE Processed(ProcessingResult(message.id, TRUE, c, TRUE,
                                  << [o.action EXCEPT !.success = "True"] >>, None),
                 o, "PROCESSED", existing_id, action, None)

\* process_message after route_action left o.
executed(w, message, c, existing_id, action, o) ==
  IF action.type = "IGNORE"
  THEN Processed(ProcessingResult(message.id, TRUE, c, TRUE, << >>, None),
                 Untouched(w), "PROCESSED", existing_id, action, None)
  ELSE IF o.raised # None
  THEN Processed(ProcessingResult(message.id, FALSE, NoClassification, FALSE, << >>,
                                  o.raised),
                 o, "FAILED", existing_id, action, "execute")
  ELSE Processed(ProcessingResult(message.id, TRUE, c, TRUE,
                                  << [o.action EXCEPT !.success = "True"] >>, None),
                 o, "PROCESSED", existing_id, action, None)

\* process_message from the back-fill of the case id on.
routed(w, message, c, existing_id, action, f, now) ==
  executed(w, message, c, existing_id, action, route_action(w, action, f, now))

\* process_message after determine_action returned or raised d.
decided(w, message, c, existing_id, d, f, now) ==
  IF d.raised # None THEN MessageFailed(w, message, d.raised, "decide", existing_id)
  ELSE [routed(w, message, c, existing_id, backfill(d.value, existing_id), f, now)
          EXCEPT !.decided = d.value]

\* process_message after extract_entities returned or raised e.
extracted(w, svc, message, c, e, existing_id, find_fails, f, now) ==
  IF e.raised # None THEN MessageFailed(w, message, e.raised, "extract", None)
  ELSE IF e.value.client_name # None /\ find_fails
  THEN MessageFailed(w, message, "StorageError", "match", None)
  ELSE decided(w, message, c, existing_id,
               service_determine(svc, message, c, e.value,
                                 IF existing_id = None THEN NoCase
                                 ELSE w.cases[existing_id]),
               f, now)

\* process_message that marks a message classified as not relevant SKIPPED.
classified_marks_skipped(w, svc, message, c, existing_id, find_fails, f, now) ==
  IF c.raised # None THEN MessageFailed(w, message, c.raised, "classify", None)
  ELSE IF ~should_process(c.value)
  THEN Processed(ProcessingResult(message.id, TRUE, c.value, FALSE, << >>, None),
                 Untouched(w), "SKIPPED", None, NoAction, None)
  ELSE extracted(w, svc, message, c.value, service_extract(svc, message),
                 existing_id, find_fails, f, now)

\* process_message after classify_message returned or raised c.
classified(w, svc, message, c, existing_id, find_fails, f, now) ==
  IF c.raised # None THEN MessageFailed(w, message, c.raised, "classify", None)
  ELSE IF ~should_process(c.value)
  THEN Processed(ProcessingResult(message.id, TRUE, c.value, FALSE, << >>, None),
                 Untouched(w), message.processing_status, None, NoAction, None)
  ELSE extracted(w, svc, message, c.value, service_extract(svc, message),
                 existing_id, find_fails, f, now)

\* process_message that classifies a message the pre-filter rejected.
process_message_filter_ignored(w, svc, message, existing_id, find_fails, f, now) ==
  classified(w, svc, message, service_classify(svc, message), existing_id,
             find_fails, f, now)

\* PipelineOrchestrator.process_message. existing_id is the id of the case the
\* lookup returned ("None" when it returned none or was not made); find_fails
\* is whether the lookup raises; f is what the action's execution finds.
process_message(w, svc, message, existing_id, find_fails, f, now) ==
  IF ~pre_filter_should_process(message.pre)
  THEN Processed(ProcessingResult(message.id, TRUE,
                                  Classification("IRRELEVANT", 10, FALSE),
                                  FALSE, << >>, None),
                 Untouched(w), message.processing_status, None, NoAction, None)
  ELSE classified(w, svc, message, service_classify(svc, message), existing_id,
                  find_fails, f, now)

\* ------------------------------------------------------------------- state
VARIABLES
  svc,              \* the LLM service in use: "llm" (LLMService) or "mock"
  cases,            \* the cases collection: case id -> case document
  tasks,            \* the task collections: task id -> task document
  audit,            \* the audit_logs collection, in write order
  clock,            \* the last time datetime.utcnow() returned
  nops,             \* operations performed so far
  phase,            \* "idle", "routing" (direct calls), "running" or "done" (batch)
  batch,            \* the ids of the messages given to process_batch
  results,          \* process_batch: the results list
  statuses,         \* the processing_status of each message processed
  counts,           \* process_batch: processed_count, failed_count, skipped_count
  batch_result,     \* the BatchProcessingResult returned
  last,             \* the last operation: its call, its outcome, the stores before
  smCase,           \* SpecSM: the Case object in memory
  smLast,           \* SpecSM: the last call made on it and what it returned
  routing,          \* route_actions: the list, each outcome, the results dict
  pfPre,            \* SpecPF: what the pre-filter reads of the message held
  pfLast            \* SpecPF: the last should_process call and what it returned

vars ==
  << svc, cases, tasks, audit, clock, nops, phase, batch, results, statuses,
     counts, batch_result, last, routing, smCase, smLast, pfPre, pfLast >>

storeVars == << cases, tasks, audit >>

batchVars == << phase, batch, results, statuses, counts, batch_result >>

smVars == << smCase, smLast >>

pfVars == << pfPre, pfLast >>

World == [cases |-> cases, tasks |-> tasks, audit |-> audit]

\* ------------------------------------------------------------------- inputs
FieldValue(value, source_message_id) ==
  [value |-> value, source_message_id |-> source_message_id]

Dob == ("date_of_birth" :> FieldValue("1980-01-01", "m0"))

Both == [k \in Fields |-> FieldValue("1980-01-01", "m0")]

\* A case stored by an earlier run.
Seed(case_type, status, received) ==
  [Case("case_1_Alice_Archer", "Alice Archer", "LoA - Pension", case_type, status,
        IF case_type = "loa" THEN Fields ELSE {})
     EXCEPT !.received_fields = received,
            !.completed_at = IF status = "COMPLETE" THEN 1 ELSE 0]

\* The stored cases a behaviour may start from: consistent with the data
\* model (an LoA case is COMPLETE only with every required field, completed_at
\* is set exactly on a COMPLETE case).
SeedCases ==
  {Seed("loa", "OPEN", Dob), Seed("loa", "IN_PROGRESS", << >>),
   Seed("loa", "IN_PROGRESS", Dob), Seed("loa", "AWAITING_INFO", Dob),
   Seed("loa", "COMPLETE", Both), Seed("loa", "CANCELLED", Dob),
   Seed("general", "OPEN", << >>), Seed("general", "COMPLETE", << >>)}

InitialStores == {<< >>} \cup {(c.id :> c) : c \in SeedCases}

\* The I/O failures an execution may meet.
FailureModes ==
  {NoFailure,
   [NoFailure EXCEPT !.get = TRUE],
   [NoFailure EXCEPT !.write = TRUE],
   [NoFailure EXCEPT !.llm = TRUE],
   [NoFailure EXCEPT !.audit = {1}],
   [NoFailure EXCEPT !.audit = {1, 2}],
   [NoFailure EXCEPT !.get = TRUE, !.audit = {1}]}

\* The I/O failures the execution of a message's action may meet.
PipelineFailures == {NoFailure, [NoFailure EXCEPT !.write = TRUE]}

\* One optional key of a parameter mapping: absent, or present with a value.
Opt(key, values) == {<< >>} \cup {(key :> v) : v \in values}

\* The parameters of a direct call of the router.
DirectParameters(type) ==
  CASE type = "CREATE_CASE" ->
         {a @@ b @@ c :
            a \in Opt("client_name", {None, "Alice Archer"}),
            b \in Opt("case_title", {"LoA - Pension"}),
            c \in {<< >>, [case_type |-> "loa", required_fields |-> Fields]}}
    [] type = "UPDATE_CASE" ->
         {<< >>,
          ("field_updates" :> ("date_of_birth" :> "P-77")),
          ("field_updates" :> ("plan_number" :> "P-77")),
          ("field_updates" :> [k \in Fields |-> "P-77"])}
    [] type = "CREATE_TASK" ->
         {a @@ b : a \in Opt("task_title", {None, "Send forms"}),
                   b \in Opt("task_description", {None})}
    [] type = "COMPLETE_TASK" -> Opt("task_title", {"Send forms"})
    [] type = "DRAFT_FOLLOWUP_EMAIL" -> Opt("missing_fields", {{}, {"plan_number"}})
    [] OTHER -> {<< >>}

\* A case id no document has.
MissingCaseId == "case_0_nobody"

Clean ==
  [has_sender |-> TRUE, whitelisted |-> FALSE, blacklisted |-> FALSE,
   spam_score |-> 0, relevant_score |-> 1]

\* An Action with the id it was constructed with.
Identified(id, action) == [id |-> id] @@ action

\* The actions a list given to route_actions may hold: a no-op, an update with
\* no case id, and a cancellation and a completion of the stored case; two
\* ids, so that a list may hold the same id twice (the same Action listed
\* twice, or two Actions constructed with one id).
ListedActions ==
  {Identified(id, Action(type, case_id, << >>, "m0")) :
     id \in {"action_1", "action_2"},
     type \in {"IGNORE", "UPDATE_CASE"}, case_id \in {None}}
  \cup
  {Identified(id, Action(type, case_id, << >>, "m0")) :
     id \in {"action_1", "action_2"},
     type \in {"CANCEL_CASE", "COMPLETE_CASE"}, case_id \in {"case_1_Alice_Archer"}}

\* The I/O failures one action of the list may meet.
ListFailures == {NoFailure, [NoFailure EXCEPT !.audit = {1}]}

\* Everything the pre-filter can read of a message: with or without a
\* from_address, the address in a whitelist or spam domain or both or neither,
\* up to MaxKeywords spam and relevant keywords in the text.
PreInputs ==
  [has_sender : BOOLEAN, whitelisted : BOOLEAN, blacklisted : BOOLEAN,
   spam_score : 0..MaxKeywords, relevant_score : 0..MaxKeywords]

\* What the pre-filter reads of a message.
PipelinePre ==
  {Clean,
   [Clean EXCEPT !.whitelisted = TRUE, !.spam_score = 3, !.relevant_score = 0],
   [Clean EXCEPT !.blacklisted = TRUE],
   [Clean EXCEPT !.has_sender = FALSE, !.spam_score = 2, !.relevant_score = 0]}

DefaultMetadata ==
  [expected_category |-> None, expected_action |-> None,
   expected_client_name |-> None, expected_case_title |-> None,
   expected_updated_contains |-> {}, expected_missing_contains |-> {},
   expected_case_type |-> "general", expected_required_fields |-> {},
   expected_task_title |-> None, expected_task_description |-> None]

Message(id, pre, text_empty, metadata) ==
  [id |-> id, pre |-> pre, text_empty |-> text_empty, text_fields |-> Fields,
   metadata |-> metadata, processing_status |-> "PENDING",
   llm_fails |-> FALSE,
   llm_entities |-> ExtractedEntities(None, None, << >>, {})]

\* Dataset metadata of a message about a case of Alice Archer.
About(category, action) ==
  [DefaultMetadata EXCEPT !.expected_category = category,
                          !.expected_action = action,
                          !.expected_client_name = "Alice Archer",
                          !.expected_case_title = "LoA - Pension"]

\* The dataset metadata of the messages given to the mock service.
MockMetadata ==
  {DefaultMetadata,
   [DefaultMetadata EXCEPT !.expected_category = "IRRELEVANT"],
   [DefaultMetadata EXCEPT !.expected_category = "BOGUS"],
   [DefaultMetadata EXCEPT !.expected_category = "ADMIN"],
   About("ADMIN", None),
   [About("LOA_RESPONSE", None) EXCEPT !.expected_client_name = NotAString],
   About("LOA_RESPONSE", "BOGUS"),
   About("LOA_RESPONSE", "IGNORE"),
   [About("CLIENT_TASK", None) EXCEPT !.expected_case_type = "loa",
                                      !.expected_required_fields = Fields],
   [About("LOA_RESPONSE", "CREATE_CASE") EXCEPT !.expected_client_name = "Bob Baker"],
   [About("CLIENT_TASK", "CREATE_CASE") EXCEPT !.expected_case_title = None],
   [About("CLIENT_TASK", "CREATE_CASE") EXCEPT !.expected_client_name = None],
   About("LOA_RESPONSE", None),
   [About("LOA_RESPONSE", None) EXCEPT !.expected_updated_contains = {"plan_number"}],
   [About("LOA_RESPONSE", "UPDATE_LOA_CASE") EXCEPT
      !.expected_updated_contains = Fields, !.expected_case_title = None],
   [About("ADMIN", "UPDATE_CASE") EXCEPT
      !.expected_updated_contains = {"date_of_birth"}],
   About("LOA_RESPONSE", "COMPLETE_CASE"),
   About("LOA_RESPONSE", "CANCEL_CASE"),
   [About("CLIENT_TASK", "CREATE_TASK") EXCEPT !.expected_task_title = "Send forms"],
   [About("CLIENT_TASK", "COMPLETE_TASK") EXCEPT !.expected_task_title = "Send forms"],
   About("LOA_MISSING_INFO", None),
   [About("LOA_MISSING_INFO", None) EXCEPT !.expected_missing_contains = {"plan_number"}],
   About("LOA_CHASE", None)}

\* The messages a batch may hold at the position of id. LLMService reads the
\* text only; MockLLMService reads the metadata only.
Inbox(service, id) ==
  {Message(id, p, FALSE, DefaultMetadata) : p \in PipelinePre \ {Clean}}
  \cup
  (IF service = "mock"
   THEN {Message(id, Clean, FALSE, m) : m \in MockMetadata}
   ELSE {Message(id, Clean, t, DefaultMetadata) : t \in BOOLEAN})

\* Case objects held in memory, for the calls of SpecSM.
SmCases ==
  {[Case("case_1_Alice_Archer", "Alice Archer", "LoA - Pension", case_type, status,
         required)
      EXCEPT !.received_fields = received, !.completed_at = completed_at] :
     case_type \in CaseType, status \in CaseStatus, required \in SUBSET Fields,
     received \in {<< >>, Dob, Both}, completed_at \in {0, 1}}

\* ------------------------------------------------------------- initial state
ZeroCounts == [processed |-> 0, failed |-> 0, skipped |-> 0]

NoLast ==
  [op |-> "none", action |-> NoAction, raised |-> None, stage |-> None,
   lookup |-> NoLookup, candidates |-> {}, matched |-> None,
   pre |-> [cases |-> << >>, tasks |-> << >>, audit |-> << >>],
   counts |-> ZeroCounts, rejected |-> FALSE, stores_up |-> TRUE,
   decided |-> NoAction]

NoBatchResult ==
  [total_messages |-> 0, processed |-> 0, failed |-> 0, skipped |-> 0,
   results |-> << >>]

NoSmCase == Case(None, None, None, "general", "OPEN", {})

\* The arguments of an add_field_value call; all None for any other call.
Added(field_name, value, source_message_id) ==
  [field_name |-> field_name, value |-> value,
   source_message_id |-> source_message_id]

NoAdded == Added(None, None, None)

\* route_actions not called: no list, no outcome, no results dict returned.
NoRouting ==
  [actions |-> << >>, raised |-> << >>, results |-> << >>, returned |-> FALSE]

NoPfLast == [op |-> "none", returned |-> FALSE, pre |-> Clean]

NoSmLast ==
  [op |-> "none", new_status |-> None, validate |-> FALSE, raised |-> None,
   returned |-> None, before |-> NoSmCase, added |-> NoAdded]

InitCommon ==
  /\ tasks = << >>
  /\ audit = << >>
  /\ clock = 1
  /\ nops = 0
  /\ phase = "idle"
  /\ batch = << >>
  /\ results = << >>
  /\ statuses = << >>
  /\ counts = ZeroCounts
  /\ batch_result = NoBatchResult
  /\ last = NoLast
  /\ routing = NoRouting
  /\ smLast = NoSmLast
  /\ pfLast = NoPfLast

Init ==
  /\ InitCommon
  /\ svc \in {"llm", "mock"}
  /\ cases \in InitialStores
  /\ smCase = NoSmCase
  /\ pfPre = Clean

InitSM ==
  /\ InitCommon
  /\ svc = "mock"
  /\ cases = << >>
  /\ smCase \in SmCases
  /\ pfPre = Clean

InitPF ==
  /\ InitCommon
  /\ svc = "mock"
  /\ cases = << >>
  /\ smCase = NoSmCase
  /\ pfPre \in PreInputs

\* ------------------------------------------------------------------ actions
\* BatchProcessingResult built when the loop of process_batch ends.
BatchProcessingResult(all_results, c) ==
  [total_messages |-> Len(all_results), processed |-> c.processed,
   failed |-> c.failed, skipped |-> c.skipped, results |-> all_results]

\* A float the code computes, kept exact as a fraction.
Ratio(num, den) == [num |-> num, den |-> den]

Times(ratio, k) == Ratio(ratio.num * k, ratio.den)

\* A success rate that takes the skipped messages as successes too.
get_success_rate_with_skipped(b) ==
  IF b.total_messages = 0
  THEN Ratio(0, 1)
  ELSE Times(Ratio(b.processed + b.skipped, b.total_messages), 100)

\* BatchProcessingResult.get_success_rate: (processed / total_messages) * 100
get_success_rate(b) ==
  IF b.total_messages = 0
  THEN Ratio(0, 1)
  ELSE Times(Ratio(b.processed, b.total_messages), 100)

\* A count that takes every successful result as processed.
count_success_as_processed(c, result) ==
  IF result.success
  THEN [c EXCEPT !.processed = @ + 1]
  ELSE [c EXCEPT !.failed = @ + 1]

\* The counting branch of the loop of process_batch.
count(c, result) ==
  IF result.success
  THEN IF result.classification.category # None /\ should_process(result.classification)
       THEN [c EXCEPT !.processed = @ + 1]
       ELSE [c EXCEPT !.skipped = @ + 1]
  ELSE [c EXCEPT !.failed = @ + 1]

\* process_batch(messages) is called with n messages.
StartBatch ==
  /\ phase = "idle"
  /\ \E n \in 0..MaxMessages :
       /\ batch' = [i \in 1..n |-> "m" \o ToString(i)]
       /\ phase' = IF n = 0 THEN "done" ELSE "running"
  /\ batch_result' = NoBatchResult
  /\ results' = << >>
  /\ statuses' = << >>
  /\ counts' = ZeroCounts
  /\ UNCHANGED << svc, storeVars, clock, nops, last, routing, smVars, pfVars >>

\* The loop body of process_batch once process_message left p.
Collect(message, f, p, look, found, all_results, c) ==
  /\ cases' = p.cases
  /\ tasks' = p.tasks
  /\ audit' = p.audit
  /\ results' = all_results
  /\ statuses' = Append(statuses, p.processing_status)
  /\ counts' = c
  /\ last' = [op |-> "message", action |-> p.action, raised |-> p.raised,
              stage |-> p.stage, lookup |-> look, candidates |-> found,
              matched |-> p.matched, pre |-> World, counts |-> counts,
              rejected |-> ~pre_filter_should_process(message.pre),
              stores_up |-> f = NoFailure, decided |-> p.decided]
  /\ IF Len(all_results) = Len(batch)
     THEN /\ phase' = "done"
          /\ batch_result' = BatchProcessingResult(all_results, c)
     ELSE UNCHANGED << phase, batch_result >>

Counted(message, f, p, look, found) ==
  Collect(message, f, p, look, found, Append(results, p.result),
          count(counts, p.result))

\* The candidates of the lookup process_message makes for a message.
Candidates(look) ==
  IF look.looked
  THEN find_case_by_client_and_title(cases, look.client_name, look.case_title)
  ELSE {}

\* The environment of one process_message: the case the lookup returns or
\* that it fails, and the failure the execution meets. A failure is drawn
\* only where it is met: the lookup fails only if it is made, the execution's
\* failure is one that changes what process_message does.
Deliver(message, look, found) ==
  \E existing_id \in (IF found = {} THEN {None} ELSE found),
     find_fails \in (IF look.looked THEN BOOLEAN ELSE {FALSE}),
     f \in PipelineFailures :
       /\ find_fails => (f = NoFailure /\ existing_id = CHOOSE id \in found \cup {None} : TRUE)
       /\ f # NoFailure =>
            process_message(World, svc, message, existing_id, find_fails, f, clock + 1)
            # process_message(World, svc, message, existing_id, find_fails, NoFailure,
                              clock + 1)
       /\ Counted(message, f,
                  process_message(World, svc, message, existing_id, find_fails, f,
                                  clock + 1),
                  look, found)

Lookup(message, look) == Deliver(message, look, Candidates(look))

\* One iteration of the loop of process_batch: process_message on the next
\* message, the result appended and counted; after the last message the
\* BatchProcessingResult is returned.
ProcessMessage ==
  /\ phase = "running"
  /\ \E message \in Inbox(svc, batch[Len(results) + 1]) :
       Lookup(message, lookup_of(svc, message))
  /\ clock' = clock + 1
  /\ nops' = nops + 1
  /\ UNCHANGED << svc, batch, routing, smVars, pfVars >>

Routed(action, f, o) ==
  /\ cases' = o.cases
  /\ tasks' = o.tasks
  /\ audit' = o.audit
  /\ last' = [op |-> "route", action |-> action, raised |-> o.raised,
              stage |-> IF o.raised = None THEN None ELSE "execute",
              lookup |-> NoLookup, candidates |-> {}, matched |-> None,
              pre |-> World, counts |-> counts, rejected |-> FALSE,
              stores_up |-> f = NoFailure, decided |-> action]

\* ActionRouter.route_action(action), called by another client than the
\* orchestrator. A failure is drawn only if it changes what the call does.
RouteAction ==
  /\ phase \in {"idle", "routing"}
  /\ nops < MaxActions
  /\ \E type \in ActionType, case_id \in DOMAIN cases \cup {None, MissingCaseId},
        f \in FailureModes :
       \E parameters \in DirectParameters(type) :
         /\ f # NoFailure =>
              route_action(World, Action(type, case_id, parameters, "m0"), f, clock + 1)
              # route_action(World, Action(type, case_id, parameters, "m0"), NoFailure,
                             clock + 1)
         /\ Routed(Action(type, case_id, parameters, "m0"), f,
                   route_action(World, Action(type, case_id, parameters, "m0"), f,
                                clock + 1))
  /\ phase' = "routing"
  /\ clock' = clock + 1
  /\ nops' = nops + 1
  /\ UNCHANGED << svc, batch, results, statuses, counts, batch_result, routing,
                  smVars, pfVars >>

\* A results dict whose entry for an id, once set, is kept.
record_result_keeps_first(results_so_far, action_id, raised) ==
  results_so_far @@ (action_id :> (raised = None))

\* route_actions: "results[action.id] = success" after route_action returned,
\* "results[action.id] = False" in the except-block.
record_result(results_so_far, action_id, raised) ==
  (action_id :> (raised = None)) @@ results_so_far

\* ActionRouter.route_actions(actions) is called with a list of actions; an
\* empty list returns the empty dict at once.
RouteActionsCall ==
  /\ phase = "idle"
  /\ \E n \in 0..MaxRouted :
       \E actions \in [1..n -> ListedActions] :
         /\ routing' = [NoRouting EXCEPT !.actions = actions, !.returned = (n = 0)]
         /\ phase' = IF n = 0 THEN "returned" ELSE "listing"
  /\ UNCHANGED << svc, storeVars, batch, results, statuses, counts, batch_result,
                  clock, nops, last, smVars, pfVars >>

\* The loop body of route_actions once route_action left o for the action.
Listed(action, f, o) ==
  /\ Routed(action, f, o)
  /\ routing' = [routing EXCEPT
                   !.raised = Append(@, o.raised),
                   !.results = record_result(@, action.id, o.raised),
                   !.returned = (Len(routing.raised) + 1 = Len(routing.actions))]
  /\ phase' = IF Len(routing.raised) + 1 = Len(routing.actions)
              THEN "returned" ELSE "listing"

\* One iteration of the loop of route_actions: route_action on the next
\* action of the list inside try/except Exception; after the last action the
\* results dict is returned.
RouteActionsNext ==
  /\ phase = "listing"
  /\ \E f \in ListFailures :
       /\ f # NoFailure =>
            route_action(World, routing.actions[Len(routing.raised) + 1], f, clock + 1)
            # route_action(World, routing.actions[Len(routing.raised) + 1],
                           NoFailure, clock + 1)
       /\ Listed(routing.actions[Len(routing.raised) + 1], f,
                 route_action(World, routing.actions[Len(routing.raised) + 1], f,
                              clock + 1))
  /\ clock' = clock + 1
  /\ nops' = nops + 1
  /\ UNCHANGED << svc, batch, results, statuses, counts, batch_result, smVars,
                  pfVars >>

\* A behaviour is one use of the engine: direct calls of the router on the
\* stored cases, or one route_actions call, or one process_batch run.
Next ==
  \/ StartBatch
  \/ ProcessMessage
  \/ RouteAction
  \/ RouteActionsCall
  \/ RouteActionsNext

Spec == Init /\ [][Next]_vars

\* ------------------------------------- process_message between stages 5 and 6
\* determine_action of the injected service returned an action for a message,
\* after the lookup matched a case or none: any action type, with no case id,
\* the id of a stored case, or another id.
BfDecided ==
  /\ last.op = "none"
  /\ \E type \in ActionType, case_id \in DOMAIN cases \cup {None, MissingCaseId},
        existing_id \in DOMAIN cases \cup {None} :
       last' = [NoLast EXCEPT !.op = "decided", !.matched = existing_id,
                              !.decided = Action(type, case_id, << >>, "m1"),
                              !.pre = World]
  /\ UNCHANGED << svc, storeVars, batchVars, clock, nops, routing, smVars, pfVars >>

\* "if existing_case and not action.case_id: action.case_id = existing_case.id":
\* the action that stage 6 is given.
BfBackfill ==
  /\ last.op = "decided"
  /\ last' = [last EXCEPT !.op = "message",
                          !.action = backfill(last.decided, last.matched)]
  /\ UNCHANGED << svc, storeVars, batchVars, clock, nops, routing, smVars, pfVars >>

NextBF ==
  \/ BfDecided
  \/ BfBackfill

SpecBF == Init /\ [][NextBF]_vars

\* ------------------------------------------------ the router on stored tasks
\* A stored task with the title the task actions name.
TaskSeed(id, case_id, status) ==
  [Task(id, case_id, "Send forms", 1) EXCEPT
     !.status = status, !.completed_at = IF status = "COMPLETE" THEN 1 ELSE 0]

\* The task collections a behaviour may start from: none, one open task
\* (standalone or of the case), one completed task, two open tasks.
TaskStores ==
  {<< >>,
   ("task_1" :> TaskSeed("task_1", None, "OPEN")),
   ("task_1" :> TaskSeed("task_1", "case_1_Alice_Archer", "OPEN")),
   ("task_1" :> TaskSeed("task_1", None, "COMPLETE")),
   ("task_0" :> TaskSeed("task_0", None, "OPEN")) @@
     ("task_1" :> TaskSeed("task_1", None, "OPEN"))}

InitTask ==
  /\ svc = "mock"
  /\ cases \in {<< >>, (Seed("loa", "AWAITING_INFO", Dob).id
                          :> Seed("loa", "AWAITING_INFO", Dob))}
  /\ tasks \in TaskStores
  /\ audit = << >>
  /\ clock = 1
  /\ nops = 0
  /\ phase = "idle"
  /\ batch = << >>
  /\ results = << >>
  /\ statuses = << >>
  /\ counts = ZeroCounts
  /\ batch_result = NoBatchResult
  /\ last = NoLast
  /\ routing = NoRouting
  /\ smCase = NoSmCase
  /\ smLast = NoSmLast
  /\ pfPre = Clean
  /\ pfLast = NoPfLast

\* The operations that read or write tasks, and the follow-ups.
TaskSessionTypes ==
  {"CREATE_TASK", "COMPLETE_TASK", "DRAFT_FOLLOWUP_EMAIL", "INITIATE_LOA_CHASE"}

\* ActionRouter.route_action(action) for a task or follow-up action. A
\* failure is drawn only if it changes what the call does.
RouteTaskAction ==
  /\ phase \in {"idle", "routing"}
  /\ nops < MaxTaskActions
  /\ \E type \in TaskSessionTypes, case_id \in DOMAIN cases \cup {None},
        f \in FailureModes :
       \E parameters \in DirectParameters(type) :
         /\ f # NoFailure =>
              route_action(World, Action(type, case_id, parameters, "m0"), f, clock + 1)
              # route_action(World, Action(type, case_id, parameters, "m0"), NoFailure,
                             clock + 1)
         /\ Routed(Action(type, case_id, parameters, "m0"), f,
                   route_action(World, Action(type, case_id, parameters, "m0"), f,
                                clock + 1))
  /\ phase' = "routing"
  /\ clock' = clock + 1
  /\ nops' = nops + 1
  /\ UNCHANGED << svc, batch, results, statuses, counts, batch_result, routing,
                  smVars, pfVars >>

NextTask == RouteTaskAction

SpecTask == InitTask /\ [][NextTask]_vars

\* ------------------------------------------- the repository called directly
\* The I/O failures a repository call may meet.
RepoFailures ==
  {NoFailure, [NoFailure EXCEPT !.get = TRUE], [NoFailure EXCEPT !.write = TRUE]}

\* CaseRepository.add_field_to_case(case_id, field_value), called by a client
\* of the repository.
AddFieldToCase ==
  /\ phase \in {"idle", "routing"}
  /\ nops < MaxActions
  /\ \E case_id \in DOMAIN cases \cup {MissingCaseId}, field_name \in Fields,
        f \in RepoFailures :
       LET r == add_field_to_case(cases, case_id, field_name,
                                  FieldValue("P-77", "m0"), f, clock + 1)
       IN /\ cases' = r.cases
          /\ last' = [NoLast EXCEPT !.op = "add_field", !.raised = r.err,
                                    !.pre = World, !.counts = counts,
                                    !.stores_up = (f = NoFailure)]
  /\ phase' = "routing"
  /\ clock' = clock + 1
  /\ nops' = nops + 1
  /\ UNCHANGED << svc, tasks, audit, batch, results, statuses, counts,
                  batch_result, routing, smVars, pfVars >>

NextRepo ==
  \/ Next
  \/ AddFieldToCase

SpecRepo == Init /\ [][NextRepo]_vars

\* --------------------------------------------- calls on a Case held in memory
SmCall(op, new_status, validate, raised, returned, case, added) ==
  /\ nops < MaxCalls
  /\ smCase' = case
  /\ smLast' = [op |-> op, new_status |-> new_status, validate |-> validate,
                raised |-> raised, returned |-> returned, before |-> smCase,
                added |-> added]
  /\ clock' = clock + 1
  /\ nops' = nops + 1
  /\ UNCHANGED << svc, storeVars, batchVars, last, routing, pfVars >>

\* CaseStateMachine.transition(case, new_status, validate)
SmTransition ==
  \E new_status \in CaseStatus, validate \in BOOLEAN :
    LET t == transition(smCase, new_status, validate, clock + 1)
    IN SmCall("transition", new_status, validate, t.raised, None, t.case,
              NoAdded)

\* CaseStateMachine.can_transition(case.status, to_status)
SmCanTransition ==
  \E to_status \in CaseStatus :
    SmCall("can_transition", to_status, FALSE, None,
           IF can_transition(smCase.status, to_status) THEN "True" ELSE "False",
           smCase, NoAdded)

\* CaseStateMachine.should_auto_transition(case)
SmShouldAutoTransition ==
  SmCall("should_auto_transition", None, FALSE, None,
         should_auto_transition(smCase), smCase, NoAdded)

\* FieldTracker.add_field_value(case, field_name, value, source_message_id)
SmAddFieldValue ==
  \E field_name \in Fields, value \in Values, source_message_id \in {"m1", "m2"} :
    SmCall("add_field_value", None, FALSE, None, field_name,
           add_field_value(smCase, field_name, value, source_message_id),
           Added(field_name, value, source_message_id))

\* Case.is_complete()
SmIsComplete ==
  SmCall("is_complete", None, FALSE, None,
         IF is_complete(smCase) THEN "True" ELSE "False", smCase, NoAdded)

\* CaseStateMachine.is_terminal_state(status)
SmIsTerminalState ==
  \E status \in CaseStatus :
    SmCall("is_terminal_state", status, FALSE, None,
           IF is_terminal_state(status) THEN "True" ELSE "False", smCase, NoAdded)

NextSM ==
  \/ SmTransition
  \/ SmCanTransition
  \/ SmShouldAutoTransition
  \/ SmAddFieldValue
  \/ SmIsComplete
  \/ SmIsTerminalState

SpecSM == InitSM /\ [][NextSM]_vars

\* ------------------------------------------------ calls on the pre-filter
\* PreFilter.should_process(message) on the message held.
PfShouldProcess ==
  /\ nops < MaxCalls
  /\ pfLast' = [op |-> "should_process",
                returned |-> pre_filter_should_process(pfPre), pre |-> pfPre]
  /\ nops' = nops + 1
  /\ UNCHANGED << svc, storeVars, batchVars, clock, last, routing, smVars, pfPre >>

\* Another message is taken from the channel.
PfNextMessage ==
  /\ nops < MaxCalls
  /\ pfPre' \in PreInputs
  /\ nops' = nops + 1
  /\ UNCHANGED << svc, storeVars, batchVars, clock, last, routing, smVars, pfLast >>

NextPF == PfShouldProcess \/ PfNextMessage

SpecPF == InitPF /\ [][NextPF]_vars

\* ------------------------------------------------------------------- claims
\* The edges of the transition table as the contract states them.
ContractEdges ==
  [OPEN |-> {"IN_PROGRESS", "CANCELLED"},
   IN_PROGRESS |-> {"AWAITING_INFO", "COMPLETE", "CANCELLED"},
   AWAITING_INFO |-> {"IN_PROGRESS", "COMPLETE", "CANCELLED"},
   COMPLETE |-> {},
   CANCELLED |-> {}]

TerminalStatuses == {"COMPLETE", "CANCELLED"}

\* The result of the message processed last.
LastResult == results[Len(results)]

C2_ExactlyOneAuditEntry ==
  (last.op # "none" /\ last.action.type \in ActionType \ {"IGNORE"})
  => Len(audit) = Len(last.pre.audit) + 1

\* C3: a persisted case whose status is COMPLETE or CANCELLED keeps that
\* status through every message processed and every action routed.
C3_TerminalAbsorbing ==
  [][\A id \in DOMAIN cases :
       cases[id].status \in TerminalStatuses
         => id \in DOMAIN cases' /\ cases'[id].status = cases[id].status]_vars

\* UPDATE_CASE executed on a COMPLETE case: its fields changed, not its status.
C3_Witness ==
  /\ last.op = "route" /\ last.action.type = "UPDATE_CASE" /\ last.raised = None
  /\ last.action.case_id \in DOMAIN last.pre.cases
  /\ last.pre.cases[last.action.case_id].status = "COMPLETE"
  /\ cases[last.action.case_id] # last.pre.cases[last.action.case_id]
  /\ cases[last.action.case_id].status = "COMPLETE"

\* C4: every persisted LoA case with status COMPLETE has all its required
\* fields among its received fields.
C4_CompleteLoAHasAllFields ==
  \A id \in DOMAIN cases :
    (cases[id].case_type = "loa" /\ cases[id].status = "COMPLETE")
      => cases[id].required_fields \subseteq DOMAIN cases[id].received_fields

\* C5: an UPDATE_CASE decided for a LOA_RESPONSE message with field updates
\* and a matched case, executed on an LoA case that still misses a required
\* field, leaves the persisted case with every updated field received and
\* status AWAITING_INFO, and exactly one audit entry with success=true added.
C5_UpdateReachesAwaitingInfo ==
  (/\ last.op = "message" /\ last.stage = None
   /\ last.action.type = "UPDATE_CASE"
   /\ LastResult.classification.category = "LOA_RESPONSE"
   /\ last.matched # None
   /\ DOMAIN last.action.parameters.field_updates # {}
   /\ cases[last.matched].case_type = "loa"
   /\ ~(cases[last.matched].required_fields
          \subseteq DOMAIN cases[last.matched].received_fields))
  => /\ DOMAIN last.action.parameters.field_updates
          \subseteq DOMAIN cases[last.matched].received_fields
     /\ cases[last.matched].status = "AWAITING_INFO"
     /\ Len(audit) = Len(last.pre.audit) + 1
     /\ audit[Len(audit)].success

\* C6: process_batch returns one result per message in input order; an
\* exception raised in any stage of one message gives that message a result
\* with success=false and an error message, leaves the earlier results as
\* they are, and the batch goes on until every message has its result.
C6_BatchFailureIsolation ==
  /\ [](/\ Len(results) <= Len(batch)
        /\ \A i \in 1..Len(results) : results[i].message_id = batch[i]
        /\ phase = "running" => Len(results) < Len(batch)
        /\ phase = "done" => /\ Len(results) = Len(batch)
                             /\ batch_result.results = results
                             /\ batch_result.total_messages = Len(batch)
        /\ (last.op = "message" /\ last.stage # None)
             => ~LastResult.success /\ LastResult.error_message # None
        /\ (last.op = "message" /\ last.stage = None) => LastResult.success)
  /\ [][phase = "running"
          => /\ Len(results') = Len(results) + 1
             /\ \A i \in 1..Len(results) : results'[i] = results[i]]_vars

\* The first message of a batch failed and the second one executed an action.
C6_Witness ==
  /\ phase = "done" /\ Len(results) = 2
  /\ ~results[1].success /\ results[1].error_message # None
  /\ results[2].success /\ results[2].actions_taken # << >>
  /\ batch_result.failed = 1 /\ batch_result.processed = 1

\* C7: a message classified ADMIN or IRRELEVANT is not relevant, goes through
\* no extraction, decision or execution, and is counted as skipped.
C7_AdminNeverProceeds ==
  (last.op = "message" /\ LastResult.classification.category \in {"ADMIN", "IRRELEVANT"})
  => /\ ~LastResult.classification.is_relevant
     /\ ~LastResult.has_entities
     /\ LastResult.actions_taken = << >>
     /\ last.action = NoAction
     /\ counts.skipped = last.counts.skipped + 1

\* The case a successful result reports as created ("None" when none).
CreatedBy(result) ==
  IF result.success /\ result.actions_taken # << >>
     /\ result.actions_taken[1].type = "CREATE_CASE"
  THEN result.actions_taken[1].case_id
  ELSE None

\* The cases earlier messages of the batch created that a lookup for
\* (client_name, case_title) selects in the store st.
CreatedEarlier(st, client_name, case_title) ==
  {id \in DOMAIN st :
     /\ \E i \in 1..(Len(results) - 1) : CreatedBy(results[i]) = id
     /\ st[id].client_name = client_name
     /\ (case_title # None => st[id].case_title = case_title)
     /\ st[id].status \notin TerminalStatuses}

\* C8 as stated: the lookup of a later message matches the non-terminal case
\* an earlier message of the batch created for that client.
C8_CreatedCaseIsMatched ==
  (last.op = "message" /\ last.lookup.looked /\ last.stage # "match")
  => \A id \in CreatedEarlier(last.pre.cases, last.lookup.client_name,
                              last.lookup.case_title) :
       last.matched = id

\* C8: each message is processed on the stores as the message before it left
\* them; the lookup of a message selects exactly the non-terminal cases of the
\* client (and title) in that store, so a case an earlier message created for
\* the client is among them, and it is the case matched when it is the only
\* one selected.
C8_LookupSeesEarlierMessages ==
  /\ []((last.op = "message" /\ last.lookup.looked)
          => /\ last.candidates =
                  {id \in DOMAIN last.pre.cases :
                     /\ last.pre.cases[id].client_name = last.lookup.client_name
                     /\ (last.lookup.case_title # None
                           => last.pre.cases[id].case_title = last.lookup.case_title)
                     /\ last.pre.cases[id].status \notin TerminalStatuses}
             /\ CreatedEarlier(last.pre.cases, last.lookup.client_name,
                               last.lookup.case_title) \subseteq last.candidates
             /\ last.stage # "match"
                  => /\ last.matched \in last.candidates \cup {None}
                     /\ last.matched = None <=> last.candidates = {}
                     /\ \A id \in last.candidates :
                          last.candidates = {id} => last.matched = id)
  /\ [][phase = "running" => last'.pre = World]_vars

\* The second message of a batch updated the case the first one created.
C8_Witness ==
  /\ last.op = "message" /\ Len(results) = 2
  /\ last.action.type = "UPDATE_CASE" /\ last.raised = None
  /\ last.matched # None
  /\ CreatedBy(results[1]) = last.matched
  /\ cases[last.matched] # last.pre.cases[last.matched]

\* C9: every audit write adds one entry at the end of the audit trail, and no
\* step changes or removes an entry written earlier.
C9_AuditAppendOnly ==
  [][/\ Len(audit') \in {Len(audit), Len(audit) + 1}
     /\ \A i \in 1..Len(audit) : audit'[i] = audit[i]]_vars

\* Two audit entries were written one after the other.
C9_Witness ==
  /\ Len(audit) = 2
  /\ audit[1].id # audit[2].id
  /\ Len(last.pre.audit) = 1 /\ last.pre.audit[1] = audit[1]

\* C10: a validated transition to the status the case already has succeeds
\* and leaves the case, completion timestamp included, as it was.
C10_SameStateNoOp ==
  (smLast.op = "transition" /\ smLast.validate
   /\ smLast.before.status = smLast.new_status)
  => smLast.raised = None /\ smCase = smLast.before

\* C11: is_complete is decided by the case type. For an LoA case it is true
\* exactly when every required field name is a key of the received fields,
\* whatever the status; for any other case it is true exactly when the status
\* is COMPLETE, whatever the fields.
C11_IsCompleteByCaseType ==
  smLast.op = "is_complete" =>
    /\ smLast.returned \in {"True", "False"}
    /\ smCase.case_type = "loa" =>
         (smLast.returned = "True" <=>
            \A name \in smCase.required_fields :
              name \in DOMAIN smCase.received_fields)
    /\ smCase.case_type # "loa" =>
         (smLast.returned = "True" <=> smCase.status = "COMPLETE")

\* An LoA case with no required field is complete in a status other than
\* COMPLETE.
C11_Witness ==
  /\ smLast.op = "is_complete" /\ smLast.returned = "True"
  /\ smCase.case_type = "loa" /\ smCase.required_fields = {}
  /\ smCase.status = "OPEN"

\* C12: should_auto_transition suggests nothing for a case that is not an LoA
\* case and for an LoA case that is OPEN, COMPLETE or CANCELLED; for an LoA
\* case in IN_PROGRESS or AWAITING_INFO it suggests COMPLETE when no required
\* field is missing, AWAITING_INFO when one is missing and the status is
\* IN_PROGRESS, nothing when one is missing and the status is AWAITING_INFO.
\* The call leaves the case as it was.
C12_AutoTransitionTable ==
  smLast.op = "should_auto_transition" =>
    LET missing == {name \in smCase.required_fields :
                      name \notin DOMAIN smCase.received_fields}
    IN /\ smCase = smLast.before
       /\ smLast.raised = None
       /\ smLast.returned =
            IF smCase.case_type # "loa" THEN None
            ELSE IF smCase.status \in {"OPEN", "COMPLETE", "CANCELLED"} THEN None
            ELSE IF missing = {} THEN "COMPLETE"
            ELSE IF smCase.status = "IN_PROGRESS" THEN "AWAITING_INFO"
            ELSE None

\* An LoA case that already awaits information and still misses a field gets
\* no suggestion.
C12_Witness ==
  /\ smLast.op = "should_auto_transition" /\ smLast.returned = None
  /\ smCase.case_type = "loa" /\ smCase.status = "AWAITING_INFO"
  /\ \E name \in smCase.required_fields :
       name \notin DOMAIN smCase.received_fields

\* C13: add_field_value is last-write-wins per field name. After a call the
\* received fields hold the names they held before plus the added one, the
\* added name carries the value and source message id of this call, and the
\* entry of every other name is the one it was.
C13_LastWriteWins ==
  smLast.op = "add_field_value" =>
    LET before == smLast.before.received_fields
        after == smCase.received_fields
        call == smLast.added
    IN /\ DOMAIN after = DOMAIN before \cup {call.field_name}
       /\ after[call.field_name].value = call.value
       /\ after[call.field_name].source_message_id = call.source_message_id
       /\ \A name \in DOMAIN before \ {call.field_name} :
            after[name] = before[name]
       /\ smCase = [smLast.before EXCEPT !.received_fields = after]

\* A field that already had a value was given another value by a later
\* message, next to a field that was left alone.
C13_Witness ==
  /\ smLast.op = "add_field_value"
  /\ smLast.added.field_name \in DOMAIN smLast.before.received_fields
  /\ smLast.before.received_fields[smLast.added.field_name].value
       # smLast.added.value
  /\ \E name \in DOMAIN smLast.before.received_fields :
       name # smLast.added.field_name

\* C14: a message whose classification is not relevant gets a successful
\* result with that classification, no extracted entities and no actions
\* taken; no case, task or audit entry is created or changed for it, no case
\* lookup is made, and process_batch counts it as skipped.
C14_NotRelevantIsSkipped ==
  /\ \A message \in Inbox(svc, "m1") :
       LET c == service_classify(svc, message)
       IN (/\ pre_filter_should_process(message.pre)
           /\ c.raised = None
           /\ ~c.value.is_relevant)
          => /\ lookup_of(svc, message) = NoLookup
             /\ \A f \in PipelineFailures :
                  LET p == process_message(World, svc, message, None, FALSE, f,
                                           clock + 1)
                  IN /\ p.result = ProcessingResult(message.id, TRUE, c.value,
                                                    FALSE, << >>, None)
                     /\ p.raised = None
                     /\ p.cases = cases /\ p.tasks = tasks /\ p.audit = audit
  /\ (/\ last.op = "message"
      /\ LastResult.classification.category # None
      /\ ~LastResult.classification.is_relevant)
     => /\ LastResult.success
        /\ ~LastResult.has_entities
        /\ LastResult.actions_taken = << >>
        /\ LastResult.error_message = None
        /\ World = last.pre
        /\ ~last.lookup.looked
        /\ last.action = NoAction
        /\ counts = [last.counts EXCEPT !.skipped = @ + 1]

\* The classifier, not the pre-filter, found the second message of a batch
\* not relevant, and the message was counted as skipped.
C14_Witness ==
  /\ last.op = "message" /\ ~last.rejected
  /\ Len(results) = 2
  /\ LastResult.success
  /\ LastResult.classification.category = "IRRELEVANT"
  /\ ~LastResult.classification.is_relevant
  /\ counts.skipped = last.counts.skipped + 1
  /\ cases # << >>

\* C15: a message the pre-filter rejects gets a successful result whose
\* classification is IRRELEVANT, not relevant, confidence 1.0, with no
\* entities and no actions; no later stage runs for it: the service is not
\* called (nothing it would have returned or raised shows), no case lookup is
\* made, no case or task is read or written and no audit entry is written.
C15_PreFilterRejection ==
  (last.op = "message" /\ last.rejected)
  => /\ LastResult = ProcessingResult(batch[Len(results)], TRUE,
                                      Classification("IRRELEVANT", 10, FALSE),
                                      FALSE, << >>, None)
     /\ World = last.pre
     /\ ~last.lookup.looked
     /\ last.candidates = {} /\ last.matched = None
     /\ last.action = NoAction
     /\ last.raised = None /\ last.stage = None
     /\ statuses[Len(statuses)] = "PENDING"

\* A message from a blacklisted sender was rejected while the configured
\* service is the one whose classification of any non-empty text raises.
C15_Witness ==
  /\ last.op = "message" /\ last.rejected
  /\ svc = "llm"
  /\ LastResult.success
  /\ LastResult.classification = Classification("IRRELEVANT", 10, FALSE)
  /\ cases # << >>

\* The number of results so far that satisfy a condition.
Bucket(P(_)) == Cardinality({i \in 1..Len(results) : P(results[i])})

IsFailed(result) == ~result.success

IsSkipped(result) == result.success /\ ~result.classification.is_relevant

IsProcessed(result) == result.success /\ result.classification.is_relevant

\* A fraction equals an integer.
RatioIs(ratio, n) == ratio.num = n * ratio.den

\* C16: every message of a batch falls in exactly one bucket: failed counts
\* the results with success=false, skipped the successful results whose
\* classification is not relevant, processed the successful results whose
\* classification is relevant, so processed + skipped + failed is the number
\* of messages; the BatchProcessingResult carries these counts, and its
\* success rate times the total is processed times 100 (70 for 7 processed,
\* 2 skipped and 1 failed of 10).
C16_BucketsPartitionBatch ==
  /\ phase \in {"running", "done"} =>
       /\ counts.failed = Bucket(IsFailed)
       /\ counts.skipped = Bucket(IsSkipped)
       /\ counts.processed = Bucket(IsProcessed)
       /\ counts.processed + counts.skipped + counts.failed = Len(results)
  /\ phase = "done" =>
       /\ batch_result = BatchProcessingResult(results, counts)
       /\ batch_result.total_messages = Len(batch)
       /\ batch_result.processed + batch_result.skipped + batch_result.failed
            = batch_result.total_messages
       /\ get_success_rate(batch_result).num * batch_result.total_messages
            = batch_result.processed * 100 * get_success_rate(batch_result).den
  /\ RatioIs(get_success_rate([total_messages |-> 10, processed |-> 7,
                               skipped |-> 2, failed |-> 1, results |-> << >>]),
             70)

\* A finished batch of two messages with one message skipped and the other
\* processed or failed, so that the rate is below 100.
C16_Witness ==
  /\ phase = "done" /\ batch_result.total_messages = 2
  /\ batch_result.skipped = 1
  /\ batch_result.processed + batch_result.failed = 1
  /\ ~RatioIs(get_success_rate(batch_result), 100)

\* C17: PreFilter.should_process decides in this order, first match wins: a
\* sender address in a whitelist domain is processed whatever the spam count;
\* else one in a blacklist domain is rejected; else a spam keyword count of 2
\* or more is rejected whatever the relevance count; else the message is
\* processed. Without a sender address both domain checks are skipped. The
\* call leaves the message and everything else as they were.
C17_PreFilterOrder ==
  /\ [](pfLast.op = "should_process" =>
         LET pre == pfLast.pre
             white == pre.has_sender /\ pre.whitelisted
             black == pre.has_sender /\ pre.blacklisted
         IN /\ white => pfLast.returned
            /\ (~white /\ black) => ~pfLast.returned
            /\ (~white /\ ~black /\ pre.spam_score >= 2) => ~pfLast.returned
            /\ (~white /\ ~black /\ pre.spam_score < 2) => pfLast.returned)
  /\ [][pfLast'.op = "should_process" /\ pfLast' # pfLast =>
          /\ pfLast'.pre = pfPre
          /\ UNCHANGED << pfPre, storeVars, batchVars, smVars >>]_vars

\* A whitelisted sender with three spam keywords and no relevant keyword was
\* processed.
C17_Witness ==
  /\ pfLast.op = "should_process" /\ pfLast.returned
  /\ pfLast.pre.has_sender /\ pfLast.pre.whitelisted
  /\ pfLast.pre.spam_score = 3 /\ pfLast.pre.relevant_score = 0

\* The operations that act on an existing case.
NeedsCaseId ==
  {"UPDATE_CASE", "COMPLETE_CASE", "CANCEL_CASE", "DRAFT_FOLLOWUP_EMAIL",
   "INITIATE_LOA_CHASE"}

\* C18: UPDATE_CASE, COMPLETE_CASE, CANCEL_CASE, DRAFT_FOLLOWUP_EMAIL and
\* INITIATE_LOA_CHASE executed with no case id end in an execution error,
\* change no persisted case, and leave a failed audit entry whose case id is
\* "unknown".
C18_NoCaseIdIsHardError ==
  (/\ last.op # "none"
   /\ last.action.type \in NeedsCaseId
   /\ last.action.case_id = None)
  => /\ last.raised = "ActionExecutionError"
     /\ cases = last.pre.cases
     /\ Len(audit) = Len(last.pre.audit) + 1
     /\ ~audit[Len(audit)].success
     /\ audit[Len(audit)].case_id = "unknown"
     /\ audit[Len(audit)].action_type = last.action.type

\* The positions of the list attempted so far whose action has a given id.
Attempts(id) ==
  {i \in 1..Len(routing.raised) : routing.actions[i].id = id}

\* The last of a non-empty set of positions.
Latest(positions) == CHOOSE i \in positions : \A j \in positions : j <= i

C20_IgnoreIsNoOp ==
  /\ (last.op = "route" /\ last.action.type = "IGNORE")
     => /\ last.raised = None
        /\ World = last.pre
        /\ phase \in {"listing", "returned"}
             => routing.results[last.action.id]
  /\ (last.op = "message" /\ last.action.type = "IGNORE")
     => /\ LastResult.success
        /\ LastResult.actions_taken = << >>
        /\ LastResult.error_message = None
        /\ last.raised = None
        /\ World = last.pre

\* A relevant message about a stored case for which IGNORE was decided.
C20_Witness ==
  /\ last.op = "message" /\ last.action.type = "IGNORE"
  /\ LastResult.success /\ LastResult.classification.is_relevant
  /\ LastResult.has_entities /\ LastResult.actions_taken = << >>
  /\ last.matched # None
  /\ audit = << >>

\* route_action was called with an IGNORE action on a store that holds a case.
C20_RouteWitness ==
  /\ last.op = "route" /\ last.action.type = "IGNORE"
  /\ last.raised = None /\ cases # << >> /\ audit = << >>

\* C21: every ProcessingResult lists at most one action taken, and it lists
\* one exactly when an action was decided for the message (so it was
\* relevant), its type is not IGNORE, and no stage, the execution included,
\* raised; the action listed is the one decided, marked successful (its
\* handler may have added to it, e.g. the id of the case it created).
C21_AtMostOneAction ==
  last.op = "message" =>
    /\ Len(LastResult.actions_taken) \in {0, 1}
    /\ Len(LastResult.actions_taken) = 1
         <=> (/\ last.action.type \notin {None, "IGNORE"}
              /\ last.raised = None)
    /\ Len(LastResult.actions_taken) = 1
         => /\ LastResult.success
            /\ LastResult.classification.is_relevant
            /\ LastResult.actions_taken[1].type = last.action.type
            /\ LastResult.actions_taken[1].triggered_by = LastResult.message_id
            /\ LastResult.actions_taken[1].success = "True"

\* A batch of two messages: the first decided IGNORE or was skipped and lists
\* no action, the second updated a case and lists that action.
C21_Witness ==
  /\ last.op = "message" /\ Len(results) = 2
  /\ results[1].success /\ results[1].actions_taken = << >>
  /\ Len(LastResult.actions_taken) = 1
  /\ LastResult.actions_taken[1].type = "UPDATE_CASE"

\* C22: with the LLM-backed service, classification never fails a message:
\* whatever happens at the LLM call, classify_message returns a
\* Classification and process_message goes on with it, so no message ends
\* with success=false because of the classification stage.
C22_ClassificationNeverFailsMessage ==
  (last.op = "message" /\ svc = "llm") => last.stage # "classify"

\* C23: CaseRepository.update_case of a case whose id is not stored fails and
\* leaves the stored cases as they were; an UPDATE_CASE, COMPLETE_CASE or
\* CANCEL_CASE action naming a case id that is not stored fails and the
\* stored cases are the ones stored before.
C23_UpdateNeverCreates ==
  /\ \A id \in {MissingCaseId, "case_1_Alice_Archer"} \ DOMAIN cases :
       LET updated == update_case(cases,
                                  Case(id, "Bob Baker", "LoA - Pension", "loa",
                                       "IN_PROGRESS", Fields),
                                  NoFailure)
       IN updated.err # None /\ updated.cases = cases
  /\ (/\ last.op # "none"
      /\ last.action.type \in {"UPDATE_CASE", "COMPLETE_CASE", "CANCEL_CASE"}
      /\ last.action.case_id # None
      /\ last.action.case_id \notin DOMAIN last.pre.cases)
     => /\ last.raised # None
        /\ cases = last.pre.cases
        /\ last.action.case_id \notin DOMAIN cases

\* COMPLETE_CASE named a case id that is not stored, next to a stored case.
C23_Witness ==
  /\ last.op = "route" /\ last.action.type = "COMPLETE_CASE"
  /\ last.action.case_id = MissingCaseId
  /\ last.raised = "ActionExecutionError"
  /\ cases # << >> /\ cases = last.pre.cases

\* C24: is_terminal_state(s) is true exactly for COMPLETE and CANCELLED, and
\* exactly when get_next_states(s) is empty, that is when no validated
\* transition from s to a different status is possible.
C24_TerminalStates ==
  smLast.op = "is_terminal_state" =>
    LET s == smLast.new_status
        terminal == smLast.returned = "True"
    IN /\ smLast.returned \in {"True", "False"}
       /\ terminal <=> s \in {"COMPLETE", "CANCELLED"}
       /\ terminal <=> get_next_states(s) = {}
       /\ terminal <=>
            \A to_status \in CaseStatus \ {s} :
              transition([smCase EXCEPT !.status = s], to_status, TRUE, clock).raised
                # None
       /\ smCase = smLast.before

\* CANCELLED was reported terminal for a case that is itself in progress.
C24_Witness ==
  /\ smLast.op = "is_terminal_state" /\ smLast.new_status = "CANCELLED"
  /\ smLast.returned = "True"
  /\ smCase.status = "IN_PROGRESS"

\* The non-terminal statuses.
Live == {"OPEN", "IN_PROGRESS", "AWAITING_INFO"}

\* The last operation executed an action of the given type on a case that
\* was persisted when it started.
ExecutedOn(type) ==
  /\ last.op # "none"
  /\ last.action.type = type
  /\ last.action.case_id \in DOMAIN last.pre.cases

\* C25: COMPLETE_CASE on a persisted OPEN, IN_PROGRESS or AWAITING_INFO case
\* succeeds and leaves the persisted status COMPLETE with a completion
\* timestamp; on a CANCELLED case it ends in an execution error.
C25_CompleteCase ==
  ExecutedOn("COMPLETE_CASE") =>
    LET id == last.action.case_id
        before == last.pre.cases[id]
    IN /\ before.status \in Live
            => /\ last.raised = None
               /\ cases[id].status = "COMPLETE"
               /\ cases[id].completed_at # 0
       /\ before.status = "CANCELLED"
            => last.raised = "ActionExecutionError"

\* C25 when every read and write of the stores works.
C25_CompleteCaseStoresUp ==
  (ExecutedOn("COMPLETE_CASE") /\ last.stores_up) =>
    LET id == last.action.case_id
        before == last.pre.cases[id]
    IN /\ before.status \in Live
            => /\ last.raised = None
               /\ cases[id].status = "COMPLETE"
               /\ cases[id].completed_at = clock
               /\ cases[id] = [before EXCEPT !.status = "COMPLETE",
                                             !.completed_at = clock]
       /\ before.status = "CANCELLED"
            => /\ last.raised = "ActionExecutionError"
               /\ cases = last.pre.cases
               /\ audit[Len(audit)].error_message = "InvalidStateTransitionError"

C25_Witness ==
  /\ ExecutedOn("COMPLETE_CASE")
  /\ last.pre.cases[last.action.case_id].status = "AWAITING_INFO"
  /\ last.raised = None
  /\ cases[last.action.case_id].status = "COMPLETE"

\* C26: CANCEL_CASE on a persisted OPEN, IN_PROGRESS or AWAITING_INFO case
\* succeeds, leaves the persisted status CANCELLED with no completion
\* timestamp and appends a successful audit entry from the case as loaded to
\* the cancelled case; on a COMPLETE case it ends in an execution error and
\* the persisted case is unchanged.
C26_CancelCase ==
  ExecutedOn("CANCEL_CASE") =>
    LET id == last.action.case_id
        before == last.pre.cases[id]
    IN /\ before.status \in Live
            => /\ last.raised = None
               /\ cases[id] = [before EXCEPT !.status = "CANCELLED"]
               /\ cases[id].completed_at = 0
               /\ Len(audit) = Len(last.pre.audit) + 1
               /\ audit[Len(audit)].success
               /\ audit[Len(audit)].before_state = before
               /\ audit[Len(audit)].after_state = cases[id]
       /\ before.status = "COMPLETE"
            => /\ last.raised = "ActionExecutionError"
               /\ cases[id] = before

\* C26 when every read and write of the stores works.
C26_CancelCaseStoresUp ==
  (ExecutedOn("CANCEL_CASE") /\ last.stores_up) =>
    LET id == last.action.case_id
        before == last.pre.cases[id]
    IN /\ before.status \in Live
            => /\ last.raised = None
               /\ cases[id] = [before EXCEPT !.status = "CANCELLED"]
               /\ cases[id].completed_at = 0
               /\ Len(audit) = Len(last.pre.audit) + 1
               /\ audit[Len(audit)].success
               /\ audit[Len(audit)].before_state = before
               /\ audit[Len(audit)].after_state = cases[id]
       /\ before.status = "COMPLETE"
            => /\ last.raised = "ActionExecutionError"
               /\ cases = last.pre.cases

C26_Witness ==
  /\ ExecutedOn("CANCEL_CASE")
  /\ last.pre.cases[last.action.case_id].status = "AWAITING_INFO"
  /\ last.raised = None
  /\ cases[last.action.case_id].status = "CANCELLED"
  /\ audit # << >> /\ audit[Len(audit)].success

\* C27: transition stamps completed_at when the new status is COMPLETE and
\* leaves it as it was for every other new status, and every persisted case
\* has a completion timestamp exactly when its status is COMPLETE.
C27_CompletedAtIffComplete ==
  \A id \in DOMAIN cases :
    /\ cases[id].completed_at # 0 <=> cases[id].status = "COMPLETE"
    /\ \A new_status \in CaseStatus :
         LET t == transition(cases[id], new_status, FALSE, clock + 1)
         IN /\ t.raised = None /\ t.case.status = new_status
            /\ t.case.completed_at = IF new_status = "COMPLETE"
                                     THEN clock + 1
                                     ELSE cases[id].completed_at

\* A case completed by COMPLETE_CASE, one cancelled by CANCEL_CASE, and one
\* completed by add_field_to_case.
C27_Witness ==
  /\ ExecutedOn("COMPLETE_CASE") /\ last.raised = None
  /\ last.pre.cases[last.action.case_id].status = "IN_PROGRESS"
  /\ last.pre.cases[last.action.case_id].completed_at = 0
  /\ cases[last.action.case_id].status = "COMPLETE"
  /\ cases[last.action.case_id].completed_at = clock

C27_CancelWitness ==
  /\ ExecutedOn("CANCEL_CASE") /\ last.raised = None
  /\ cases[last.action.case_id].status = "CANCELLED"
  /\ cases[last.action.case_id].completed_at = 0

C27_RepoWitness ==
  /\ last.op = "add_field" /\ last.raised = None
  /\ \E id \in DOMAIN cases :
       /\ last.pre.cases[id].status # "COMPLETE"
       /\ cases[id].status = "COMPLETE" /\ cases[id].completed_at = clock

\* C28: whenever the execution of an action fails, the error that leaves the
\* handler is an action-execution error, and a failed audit entry with empty
\* before and after state that carries the cause has been written.
C28_HandlerFailuresWrapped ==
  (last.op # "none" /\ last.stage = "execute" /\ last.raised # None)
  => /\ last.raised = "ActionExecutionError"
     /\ Len(audit) = Len(last.pre.audit) + 1
     /\ ~audit[Len(audit)].success
     /\ audit[Len(audit)].before_state = EmptyState
     /\ audit[Len(audit)].after_state = EmptyState
     /\ audit[Len(audit)].error_message # None

\* C28 when every read and write of the stores works.
C28_WrappedWhenStoresUp ==
  (/\ last.op # "none" /\ last.stage = "execute" /\ last.raised # None
   /\ last.stores_up)
  => /\ last.raised = "ActionExecutionError"
     /\ Len(audit) = Len(last.pre.audit) + 1
     /\ ~audit[Len(audit)].success
     /\ audit[Len(audit)].before_state = EmptyState
     /\ audit[Len(audit)].after_state = EmptyState
     /\ audit[Len(audit)].error_message # None

\* The processing status of the message processed last, after the call; every
\* message enters the batch with the status PENDING.
LastStatus == statuses[Len(statuses)]

\* C29: after process_message the message is PROCESSED exactly when it was
\* relevant and its result is successful, FAILED exactly when an exception
\* was caught and its result is unsuccessful, and it keeps the status it had
\* (PENDING) when it stopped at the pre-filter or at a not-relevant
\* classification; one status is recorded per result.
C29_StatusSetOnce ==
  /\ Len(statuses) = Len(results)
  /\ last.op = "message" =>
       /\ LastStatus \in {"PENDING", "PROCESSED", "FAILED"}
       /\ LastStatus = "PROCESSED"
            <=> (LastResult.success /\ LastResult.classification.is_relevant)
       /\ LastStatus = "FAILED" <=> ~LastResult.success
       /\ LastStatus = "FAILED" <=> last.stage # None
       /\ LastStatus = "PENDING"
            <=> (LastResult.success /\ ~LastResult.classification.is_relevant)
       /\ last.rejected => LastStatus = "PENDING"
       /\ \A i \in 1..Len(results) :
            statuses[i] = "PROCESSED"
              <=> (results[i].success /\ results[i].classification.is_relevant)

\* A batch of two: a not-relevant message left PENDING, then a relevant one
\* PROCESSED.
C29_Witness ==
  /\ last.op = "message" /\ Len(statuses) = 2
  /\ statuses[1] = "PENDING" /\ ~results[1].classification.is_relevant
  /\ statuses[2] = "PROCESSED" /\ LastResult.classification.is_relevant

C29_FailedWitness ==
  /\ last.op = "message" /\ LastStatus = "FAILED" /\ last.stage = "execute"
  /\ ~LastResult.success

\* C30: the action given to the router is the decided action with its case
\* id set to the matched case's id when a case was matched and the decided
\* action carried none; it is the decided action unchanged when that action
\* carried a case id or when no case was matched.
C30_CaseBackfill ==
  (last.op = "message" /\ last.decided.type # None) =>
    /\ last.action = [last.decided EXCEPT !.case_id = last.action.case_id]
    /\ (last.matched # None /\ last.decided.case_id = None)
         => last.action.case_id = last.matched
    /\ last.decided.case_id # None => last.action.case_id = last.decided.case_id
    /\ last.matched = None => last.action.case_id = last.decided.case_id

\* A matched case back-filled into a decided action that carried no case id.
C30_Witness ==
  /\ last.op = "message"
  /\ last.matched # None
  /\ last.decided.type \notin {None, "IGNORE"}
  /\ last.decided.case_id = None
  /\ last.action.case_id = last.matched

\* A decided action that carried a case id already, not the matched one.
C30_CarriedWitness ==
  /\ last.op = "message"
  /\ last.decided.type # None
  /\ last.matched # None
  /\ last.decided.case_id \notin {None, last.matched}
  /\ last.action = last.decided

\* No case matched: the action is routed with no case id.
C30_UnmatchedWitness ==
  /\ last.op = "message"
  /\ last.matched = None
  /\ last.decided.type \notin {None, "IGNORE"}
  /\ last.action.case_id = None

\* C31: a case lookup is made only with an extracted client name; the case
\* matched has that client name, the extracted case title when one was
\* extracted, and was OPEN, IN_PROGRESS or AWAITING_INFO when looked up, so
\* the action given to the router with the matched case's id targets a case
\* that was not terminal at lookup time.
C31_MatchIsLiveCaseOfClient ==
  last.op = "message" =>
    /\ last.lookup.looked => last.lookup.client_name # None
    /\ ~last.lookup.looked => (last.matched = None /\ last.candidates = {})
    /\ last.matched # None =>
         /\ last.matched \in DOMAIN last.pre.cases
         /\ last.pre.cases[last.matched].client_name = last.lookup.client_name
         /\ last.lookup.case_title # None
              => last.pre.cases[last.matched].case_title = last.lookup.case_title
         /\ last.pre.cases[last.matched].status \in Live
         /\ last.action.type # None => last.action.case_id = last.matched

\* A terminal case of the client was stored, and the lookup matched none.
C31_Witness ==
  /\ last.op = "message" /\ last.lookup.looked /\ last.stage = None
  /\ last.matched = None
  /\ \E id \in DOMAIN last.pre.cases :
       /\ last.pre.cases[id].client_name = last.lookup.client_name
       /\ last.pre.cases[id].status \in TerminalStatuses

\* A live case of the client was matched and the action routed to it.
C31_MatchedWitness ==
  /\ last.op = "message" /\ last.matched # None
  /\ last.lookup.case_title # None
  /\ last.action.type = "UPDATE_CASE" /\ last.action.case_id = last.matched
  /\ last.pre.cases[last.matched].status = "AWAITING_INFO"

\* The audit entry written last.
LastAudit == audit[Len(audit)]

\* The missing fields a DRAFT_FOLLOWUP_EMAIL resolves: those its parameters
\* provide or, when they provide none, those the case computes.
ResolvedMissing(action, case) ==
  IF /\ "missing_fields" \in DOMAIN action.parameters
     /\ action.parameters["missing_fields"] # {}
  THEN action.parameters["missing_fields"]
  ELSE get_missing_fields(case)

\* The missing fields as dict.get resolves them: the case computes them only
\* when the parameters have no missing_fields key.
ResolvedByKey(action, case) ==
  IF "missing_fields" \in DOMAIN action.parameters
  THEN action.parameters["missing_fields"]
  ELSE get_missing_fields(case)

\* C32: with the stores working, DRAFT_FOLLOWUP_EMAIL on a persisted case
\* succeeds; it writes the "no action needed" audit entry exactly when the
\* missing fields resolved from the parameters or else from the case are
\* none, and otherwise drafts the email for the resolved missing fields.
C32_FollowupResolvesMissing ==
  (ExecutedOn("DRAFT_FOLLOWUP_EMAIL") /\ last.stores_up) =>
    LET resolved == ResolvedMissing(last.action,
                                    last.pre.cases[last.action.case_id])
    IN /\ last.raised = None
       /\ Len(audit) = Len(last.pre.audit) + 1
       /\ LastAudit.success
       /\ IF resolved = {}
          THEN LastAudit.after_state = [status |-> "no_action_needed"]
          ELSE LastAudit.after_state =
                 [email_drafted |-> TRUE, missing_fields |-> resolved]

\* C32 with the case's computation used only when the parameters have no
\* missing_fields entry.
C32_FollowupResolvesByKey ==
  (ExecutedOn("DRAFT_FOLLOWUP_EMAIL") /\ last.stores_up) =>
    LET resolved == ResolvedByKey(last.action,
                                  last.pre.cases[last.action.case_id])
    IN /\ last.raised = None
       /\ Len(audit) = Len(last.pre.audit) + 1
       /\ LastAudit.success
       /\ IF resolved = {}
          THEN LastAudit.after_state = [status |-> "no_action_needed"]
          ELSE LastAudit.after_state =
                 [email_drafted |-> TRUE, missing_fields |-> resolved]

\* The follow-up operations.
FollowupTypes == {"DRAFT_FOLLOWUP_EMAIL", "INITIATE_LOA_CHASE"}

\* C33: after DRAFT_FOLLOWUP_EMAIL or INITIATE_LOA_CHASE, successful or
\* failed, every stored case and every stored task is as before; the only
\* persisted effect is at most one audit entry appended.
C33_FollowupsLeaveStores ==
  (last.op # "none" /\ last.action.type \in FollowupTypes) =>
    /\ cases = last.pre.cases
    /\ tasks = last.pre.tasks
    /\ Len(audit) \in {Len(last.pre.audit), Len(last.pre.audit) + 1}
    /\ \A i \in 1..Len(last.pre.audit) : audit[i] = last.pre.audit[i]
    /\ last.raised = None => Len(audit) = Len(last.pre.audit) + 1

\* A chase succeeded on a stored case while a task was stored.
C33_Witness ==
  /\ last.op # "none" /\ last.action.type = "INITIATE_LOA_CHASE"
  /\ last.raised = None
  /\ last.action.case_id \in DOMAIN cases
  /\ tasks # << >>
  /\ LastAudit.success /\ LastAudit.action_type = "INITIATE_LOA_CHASE"

\* A follow-up email was drafted for a stored case; another one failed.
C33_DraftWitness ==
  /\ ExecutedOn("DRAFT_FOLLOWUP_EMAIL") /\ last.raised = None
  /\ LastAudit.after_state # [status |-> "no_action_needed"]

C33_FailedWitness ==
  /\ ExecutedOn("DRAFT_FOLLOWUP_EMAIL") /\ last.raised # None
  /\ cases # << >>

\* The stored tasks a COMPLETE_TASK action may complete: not complete, with
\* the title given, in the collection the action's case id selects.
Completable(action, stored) ==
  {id \in DOMAIN stored :
     /\ "task_title" \in DOMAIN action.parameters
     /\ stored[id].title = action.parameters["task_title"]
     /\ stored[id].case_id = action.case_id
     /\ stored[id].status # "COMPLETE"}

\* C34: COMPLETE_TASK with a title that a non-complete task of the selected
\* collection has completes one such task, stamps it and audits before and
\* after; with no such task or no title it ends in an execution error with a
\* failed audit entry and changes no task.
C34_CompleteTask ==
  (last.op # "none" /\ last.action.type = "COMPLETE_TASK") =>
    LET open == Completable(last.action, last.pre.tasks)
    IN IF open # {}
       THEN /\ last.raised = None
            /\ \E id \in open :
                 /\ tasks = [last.pre.tasks EXCEPT
                               ![id] = [@ EXCEPT !.status = "COMPLETE",
                                                 !.completed_at = clock]]
                 /\ LastAudit.success
                 /\ LastAudit.before_state = last.pre.tasks[id]
                 /\ LastAudit.after_state = tasks[id]
       ELSE /\ last.raised = "ActionExecutionError"
            /\ tasks = last.pre.tasks
            /\ Len(audit) = Len(last.pre.audit) + 1
            /\ ~LastAudit.success

\* C34 when every read and write of the stores works.
C34_CompleteTaskStoresUp ==
  (last.op # "none" /\ last.action.type = "COMPLETE_TASK" /\ last.stores_up) =>
    LET open == Completable(last.action, last.pre.tasks)
    IN IF open # {}
       THEN /\ last.raised = None
            /\ \E id \in open :
                 /\ tasks = [last.pre.tasks EXCEPT
                               ![id] = [@ EXCEPT !.status = "COMPLETE",
                                                 !.completed_at = clock]]
                 /\ LastAudit.success
                 /\ LastAudit.before_state = last.pre.tasks[id]
                 /\ LastAudit.after_state = tasks[id]
       ELSE /\ last.raised = "ActionExecutionError"
            /\ tasks = last.pre.tasks
            /\ Len(audit) = Len(last.pre.audit) + 1
            /\ ~LastAudit.success

\* A second COMPLETE_TASK for the single task the first one completed.
C34_Witness ==
  /\ last.op # "none" /\ last.action.type = "COMPLETE_TASK"
  /\ last.raised = "ActionExecutionError"
  /\ Len(audit) = 2 /\ audit[1].success /\ audit[1].action_type = "COMPLETE_TASK"
  /\ ~audit[2].success
  /\ DOMAIN tasks = {"task_1"} /\ tasks["task_1"].status = "COMPLETE"
  /\ tasks["task_1"].completed_at = clock - 1

\* C35: when the execution of an action ends in an error, the persisted
\* cases and tasks are what they were before it started; a persisted change
\* comes with a successful audit entry for the action, never a failed one.
C35_FailedActionChangesNothing ==
  (last.op # "none" /\ last.action.type \in ActionType) =>
    /\ last.raised # None => (cases = last.pre.cases /\ tasks = last.pre.tasks)
    /\ (cases # last.pre.cases \/ tasks # last.pre.tasks)
         => /\ Len(audit) = Len(last.pre.audit) + 1
            /\ LastAudit.success
            /\ LastAudit.action_type = last.action.type

\* C35 when every read and write of the stores works.
C35_AtomicWhenStoresUp ==
  (last.op # "none" /\ last.action.type \in ActionType /\ last.stores_up) =>
    /\ last.raised # None => (cases = last.pre.cases /\ tasks = last.pre.tasks)
    /\ (cases # last.pre.cases \/ tasks # last.pre.tasks)
         => /\ Len(audit) = Len(last.pre.audit) + 1
            /\ LastAudit.success
            /\ LastAudit.action_type = last.action.type

\* The statuses a chain of one or more edges of the table leads to.
RECURSIVE ChainFrom(_, _)
ChainFrom(S, n) ==
  IF n = 0 THEN {}
  ELSE LET step == UNION {ContractEdges[s] : s \in S}
       IN step \cup ChainFrom(step, n - 1)

ChainOfEdges(status) == ChainFrom({status}, Cardinality(CaseStatus))

\* C36: every change of a persisted case's status made by one operation (an
\* action handler or add_field_to_case) is an edge of the transition table
\* or a chain of such edges; no persisted case leaves COMPLETE or CANCELLED.
C36_StatusChangesFollowTable ==
  last.op # "none" =>
    \A id \in DOMAIN last.pre.cases :
      /\ id \in DOMAIN cases
      /\ cases[id].status # last.pre.cases[id].status
           => cases[id].status \in ChainOfEdges(last.pre.cases[id].status)
      /\ last.pre.cases[id].status \in TerminalStatuses
           => cases[id].status = last.pre.cases[id].status

\* C36 for the action handlers alone.
C36_HandlersFollowTable ==
  (last.op # "none" /\ last.op # "add_field") =>
    \A id \in DOMAIN last.pre.cases :
      /\ id \in DOMAIN cases
      /\ cases[id].status # last.pre.cases[id].status
           => cases[id].status \in ChainOfEdges(last.pre.cases[id].status)
      /\ last.pre.cases[id].status \in TerminalStatuses
           => cases[id].status = last.pre.cases[id].status

\* C37: an LoA case as CREATE_CASE persists it (status OPEN) that an
\* UPDATE_CASE action updates successfully has status COMPLETE afterwards
\* when every required field has been received, and AWAITING_INFO when a
\* required field is still missing.
C37_UpdatesDriveLoACase ==
  (/\ ExecutedOn("UPDATE_CASE") /\ last.raised = None
   /\ last.pre.cases[last.action.case_id].case_type = "loa"
   /\ last.pre.cases[last.action.case_id].status = "OPEN")
  => LET after == cases[last.action.case_id]
     IN after.status = IF after.required_fields \subseteq DOMAIN after.received_fields
                       THEN "COMPLETE"
                       ELSE "AWAITING_INFO"

\* C37 for an LoA case that is IN_PROGRESS or AWAITING_INFO when updated.
C37_UpdatesDriveStartedLoACase ==
  (/\ ExecutedOn("UPDATE_CASE") /\ last.raised = None
   /\ last.pre.cases[last.action.case_id].case_type = "loa"
   /\ last.pre.cases[last.action.case_id].status \in {"IN_PROGRESS", "AWAITING_INFO"})
  => LET after == cases[last.action.case_id]
     IN after.status = IF after.required_fields \subseteq DOMAIN after.received_fields
                       THEN "COMPLETE"
                       ELSE "AWAITING_INFO"

\* The value a parameter mapping provides under a key, or the default when
\* the key is absent or its value is null.
Provided(params, key, default) ==
  IF key \in DOMAIN params /\ params[key] # None THEN params[key] ELSE default

\* The cases the last operation added to the store.
NewCases == DOMAIN cases \ DOMAIN last.pre.cases

\* C38: with the stores working, CREATE_CASE succeeds for every parameter
\* mapping, also one whose client_name or case_title is present but null:
\* one case is added, with the defaults substituted, status OPEN and no
\* received fields; the action's case id is the new case's, and the audit
\* entry has an empty before-state and the new case as after-state.
C38_CreateCaseDefaults ==
  (last.op # "none" /\ last.action.type = "CREATE_CASE" /\ last.stores_up) =>
    LET params == last.action.parameters
        client == Provided(params, "client_name", "Unknown")
    IN /\ last.raised = None
       /\ \E id \in NewCases :
            /\ NewCases = {id}
            /\ cases[id] = Case(id, client,
                                Provided(params, "case_title", "Case: " \o client),
                                Provided(params, "case_type", "general"), "OPEN",
                                Get(params, "required_fields", {}))
            /\ Len(audit) = Len(last.pre.audit) + 1
            /\ LastAudit.success
            /\ LastAudit.case_id = id
            /\ LastAudit.before_state = EmptyState
            /\ LastAudit.after_state = cases[id]
       /\ \A id \in DOMAIN last.pre.cases : cases[id] = last.pre.cases[id]

\* C38 for the parameter mappings that give a client name and give no null
\* case title.
C38_CreateCaseWithNames ==
  (/\ last.op # "none" /\ last.action.type = "CREATE_CASE" /\ last.stores_up
   /\ "client_name" \in DOMAIN last.action.parameters
   /\ last.action.parameters["client_name"] # None
   /\ Get(last.action.parameters, "case_title", "") # None)
  => LET params == last.action.parameters
         client == params["client_name"]
     IN /\ last.raised = None
        /\ \E id \in NewCases :
             /\ NewCases = {id}
             /\ cases[id] = Case(id, client,
                                 Get(params, "case_title", "Case: " \o client),
                                 Provided(params, "case_type", "general"), "OPEN",
                                 Get(params, "required_fields", {}))
             /\ LastAudit.success
             /\ LastAudit.case_id = id
             /\ LastAudit.before_state = EmptyState
             /\ LastAudit.after_state = cases[id]

C39_UpdateNeverInvalid ==
  (last.op # "none" /\ last.action.type = "UPDATE_CASE" /\ last.raised # None
   /\ Len(audit) > Len(last.pre.audit))
  => LastAudit.error_message # "InvalidStateTransitionError"

\* C40: in every step a stored case stays stored with the required fields,
\* case type, client name and title it had, and with every received-field
\* key it had; so its set of missing fields does not grow.
C40_FieldsOnlyGrow ==
  [][\A id \in DOMAIN cases :
       /\ id \in DOMAIN cases'
       /\ cases'[id].required_fields = cases[id].required_fields
       /\ DOMAIN cases[id].received_fields \subseteq DOMAIN cases'[id].received_fields
       /\ get_missing_fields(cases'[id]) \subseteq get_missing_fields(cases[id])
       /\ cases'[id].case_type = cases[id].case_type
       /\ cases'[id].client_name = cases[id].client_name
       /\ cases'[id].case_title = cases[id].case_title]_vars

\* An UPDATE_CASE that stored a new field on a case that already had one.
C40_Witness ==
  /\ ExecutedOn("UPDATE_CASE")
  /\ last.raised = None
  /\ LET before == last.pre.cases[last.action.case_id]
         after == cases[last.action.case_id]
     IN /\ DOMAIN before.received_fields # {}
        /\ DOMAIN before.received_fields # DOMAIN after.received_fields
        /\ DOMAIN before.received_fields \subseteq DOMAIN after.received_fields
        /\ get_missing_fields(after) # get_missing_fields(before)

\* A COMPLETE_CASE or CANCEL_CASE that changed the stored case.
C40_StatusWitness ==
  /\ \/ ExecutedOn("COMPLETE_CASE")
     \/ ExecutedOn("CANCEL_CASE")
  /\ last.raised = None
  /\ cases[last.action.case_id] # last.pre.cases[last.action.case_id]

====
